---- MODULE Spec2Model ----
(***************************************************************************)
(* Wellspring: content-addressed signed thoughts with peer replication.    *)
(*                                                                         *)
(* Part I models the visibility-aware node of wellspring_node_v2.py        *)
(* (class WellspringNodeV2 and the HTTP handlers of create_app), driven as *)
(* wellspring_visibility_test.py drives it.                                *)
(* Part II models the thread-3 store and peer service (core.py,            *)
(* peer_service.py, daemon.py) and the metadata table of the vector db     *)
(* that Push indexes into (thread-2, wellspring_embeddings.py).            *)
(* Part III models TrustGraph of wellspring_trust_network.py, Part IV      *)
(* TrustGraphWithRepeaters of wellspring_repeaters.py, Part V the pools    *)
(* and waterline of thread-3 (pool.py), Part VI AppetiteEngine of          *)
(* wellspring_appetite.py.                                                 *)
(*                                                                         *)
(* A canonical encoding (json.dumps with sort_keys) is one-to-one in the   *)
(* mapping it encodes, and a hash (sha256, blake3) is taken as collision   *)
(* free: in Part I a CID is the pair (sign_data, signature) it is the      *)
(* digest of, in Part II the canonical token sequence behind a prefix.  An *)
(* Ed25519 signature is the pair (signing key, signed message); it         *)
(* verifies under a public key exactly when that key matches and the       *)
(* message is the one presented.  The statistics counters of the node      *)
(* (received_count, sent_count, verified_count, rejected_count,            *)
(* filtered_count) are write-only in the source and are left out.          *)
(*                                                                         *)
(* Specifications:                                                         *)
(*   Spec      two nodes driven as the visibility test drives them         *)
(*   SpecOpen  one node whose /peering and /receive any caller may post to *)
(*   SpecPeer  the thread-3 daemon: store, peer service, maintenance       *)
(*   SpecSync  two nodes that keep syncing in both directions (fair)       *)
(*   SpecVisibility two nodes that post direct messages and odd notes      *)
(*   SpecBatch     one node that is posted batches in every order          *)
(*   SpecRevoke    the owner of a pool who admits and revokes a device     *)
(*   SpecTrust     a trust graph that grows while trust is computed        *)
(*   SpecRepeaters a trust graph with repeaters and a memo table           *)
(*   SpecObserver  an observer that attests and designates a repeater      *)
(*   SpecChain     a chain of attestations with short cuts and cycles      *)
(*   SpecScenario  the chain from Dave to Dr. Chen of the repeater demo    *)
(*   SpecCrash     a daemon whose process may die in the middle of a put   *)
(*   SpecHello     a peer service whose worker threads answer Hello calls  *)
(*   SpecBloom     a daemon and a client that build bloom filters          *)
(*   SpecIngest    a daemon with the RAG that is pushed thoughts           *)
(*   SpecRoundTrip a daemon that is pushed what create_thought built       *)
(*   SpecRag       an index whose rows are weighted, then queried          *)
(*   SpecPool      a pool whose waterline is set while a peer serves       *)
(*   SpecAppetite  an appetite engine configured while messages arrive     *)
(*   SpecAttack    an appetite engine with partial trust, within an hour   *)
(***************************************************************************)
EXTENDS Integers, Sequences, FiniteSets, TLC

VARIABLES
    node,     \* name -> the WellspringNodeV2 object of that process
    utcnow,   \* datetime.utcnow(), a logical clock
    wire,     \* the last response of a /sync handler: who asked, what was sent
    db,       \* thread-3: the thoughts table of wellspring.db, cid -> row
    jsonl,    \* thread-3: the lines of thoughts.jsonl
    time_ms,  \* thread-3: time.time() * 1000, a logical clock
    stream,   \* thread-3: the last stream of payloads put on the wire
    acks,     \* thread-3: the acks the last Push answered with
    direct_trust,  \* trust network: TrustGraph.direct_trust, from -> items (to, weight)
    trust_result,  \* trust network: what the last compute_trust call returned
    repeater_graph, \* repeaters: the TrustGraphWithRepeaters object (edges, repeaters, cache)
    pool_thoughts,  \* pools: the stored thoughts of type pool and pool_config, oldest first
    _pools,         \* pools: pool._pools of the serving process
    query_response, \* pools: the pool the last Query was scoped to and what it returned
    engine,         \* appetite: the AppetiteEngine object
    datetime_now,   \* appetite: datetime.now(), a logical clock
    evaluated,      \* appetite: every message evaluate has judged, with the result
    embedding_metadata, \* thread-2: the embedding_metadata table of the vector db, cid -> row
    session_counter,    \* thread-3: WotPeerService.session_counter
    peers,              \* thread-3: WotPeerService.peers, session_id -> peer info
    workers             \* thread-3: the threads of the server's pool, each in a Hello call

nodeVars == <<node, utcnow, wire>>

peerVars == <<db, jsonl, time_ms, stream, acks>>

trustVars == <<direct_trust, trust_result>>

poolVars == <<pool_thoughts, _pools, query_response>>

appetiteVars == <<engine, datetime_now, evaluated>>

\* The state that no node and no store of Parts I and II touches.
ragVars == <<embedding_metadata>>

serviceVars == <<session_counter, peers, workers>>

libVars == <<trustVars, repeater_graph, poolVars, appetiteVars, ragVars, serviceVars>>

notServiceVars == <<nodeVars, peerVars, trustVars, repeater_graph, poolVars, appetiteVars, ragVars>>

notNodeVars == <<peerVars, libVars>>

notPeerVars == <<nodeVars, libVars>>

notTrustVars == <<nodeVars, peerVars, repeater_graph, poolVars, appetiteVars, ragVars, serviceVars>>

notRepeaterVars == <<nodeVars, peerVars, trustVars, poolVars, appetiteVars, ragVars, serviceVars>>

notPoolVars == <<nodeVars, peerVars, trustVars, repeater_graph, appetiteVars, ragVars, serviceVars>>

notAppetiteVars == <<nodeVars, peerVars, trustVars, repeater_graph, poolVars, ragVars, serviceVars>>

vars == <<nodeVars, peerVars, libVars>>

---------------------------------------------------------------------------
\* Bounds of the model.

\* Last value of the logical clock: at most MaxTime thoughts are created
\* after the nodes are constructed.
MaxTime == 2

MaxChainDepth == 1

\* Threads of the server's pool that take a Hello call.
MaxWorkers == 3

\* Number of bits of a node's bloom filter (1024 in the source), scaled down
\* so that false positives occur among a handful of CIDs.
BloomSize == 16

\* Longest batch an outside caller hands to /receive.
MaxBatch == 2

\* Number of pools created.
MaxPools == 1

\* Number of lines thoughts.jsonl grows to.
MaxLog == 3

\* Number of attestations a trust graph grows to.
MaxTrustEdges == 3

\* Number of edges a trust graph with repeaters grows to.
MaxRepeaterEdges == 2

\* Number of edges the observer and its repeater attest.
MaxObserverEdges == 3

\* Number of edges from the first identity of a chain to the last.
ChainLength == 6

\* Last value of the logical clock at which the owner attests or the device
\* signs a note.
MaxRevokeTime == 5

\* Number of times the waterline of a pool is set.
MaxConfigs == 2

\* Longest list of results RAG.retrieve hands to a Query.
MaxResults == 2

\* Number of messages the appetite engine evaluates.
MaxMessages == 4

\* Last value of the clock of the appetite engine.
MaxClock == 2

\* Ticks of that clock in an hour.
HourTicks == 2

---------------------------------------------------------------------------
\* Program constants.

\* BloomFilter.__init__(hash_count=3)
hash_count == 3

\* daemon.py: --limit, default 100, of push_thoughts
PushLimit == 100

\* The two running nodes and the identity of an outside caller.
Nodes == {"A", "B"}

Outsider == "E"

\* The node the outside caller reaches.
OutsiderPeer == "A"

Names == Nodes \cup {Outsider}

\* created_by of a self-bootstrapped identity.
GENESIS == <<"GENESIS">>

\* Ed25519 key pairs, one per name; a pair is named by its public key hex.
KeyOf == [n \in Names |-> IF n = "A" THEN "kA" ELSE IF n = "B" THEN "kB" ELSE "kE"]

---------------------------------------------------------------------------
\* Generic helpers (Python dict / list / set behaviour).

Range(s) == {s[i] : i \in 1..Len(s)}

EmptyDict == [x \in {} |-> <<>>]

DictSet(d, k, v) == [x \in (DOMAIN d) \cup {k} |-> IF x = k THEN v ELSE d[x]]

\* dict.get(k, default)
DictGet(d, k, default) == IF k \in DOMAIN d THEN d[k] ELSE default

RECURSIVE Perms(_)
\* Every iteration order of a Python set (string hashing is randomised).
Perms(S) ==
    IF S = {} THEN {<<>>}
    ELSE UNION {{<<x>> \o p : p \in Perms(S \ {x})} : x \in S}

RECURSIVE Concat(_)
Concat(ss) == IF Len(ss) = 0 THEN <<>> ELSE Concat(SubSeq(ss, 1, Len(ss) - 1)) \o ss[Len(ss)]

---------------------------------------------------------------------------
\* Canonical encoding, CID and signature (wellspring_node_v2.py).

\* sign_data of SignedThought.sign and of _verify_signature.  The message
\* json.dumps(sign_data, sort_keys=True) is one-to-one in the dict, which stands
\* for it; the visibility key is there only when truthy (<<>> otherwise).
SignData(type, content, created_by, because, created_at, visibility) ==
    [type |-> type,
     content |-> content,
     created_by |-> created_by,
     because |-> because,
     created_at |-> created_at,
     visibility |-> visibility]

\* private_key.sign(message)
Ed25519Sign(key, message) == [key |-> key, msg |-> message]

\* pubkey.verify(sig_bytes, message) does not raise
Ed25519Verify(pubkey, sig, message) == sig.key = pubkey /\ sig.msg = message

\* compute_cid({**sign_data, "signature": signature}): "baf_" and 32 hex
\* digits of sha256, taken as collision free.
compute_cid(sign_data, signature) == <<sign_data, signature>>

\* SignedThought(...); sign(private_key); to_dict()
SignedThought(type, content, created_by, because, visibility, created_at, private_key) ==
    LET sign_data == SignData(type, content, created_by, because, created_at, visibility)
        signature == Ed25519Sign(private_key, sign_data)
    IN  [cid |-> compute_cid(sign_data, signature),
         type |-> type,
         content |-> content,
         created_by |-> created_by,
         because |-> because,
         created_at |-> created_at,
         signature |-> signature,
         visibility |-> visibility]

\* The sign_data a verifier rebuilds from a received dict.
SignDataOf(t) == SignData(t.type, t.content, t.created_by, t.because, t.created_at, t.visibility)

\* The CID that the fields of a dict hash to.
RecomputedCid(t) == compute_cid(SignDataOf(t), t.signature)

---------------------------------------------------------------------------
\* Bloom filter (class BloomFilter).

\* The numbers the hash below mixes.
TypeCode(type) ==
    CASE type = "identity" -> 1 [] type = "note" -> 2 [] type = "pool" -> 3
      [] type = "attestation" -> 4 [] type = "connection" -> 5 [] OTHER -> 6

KeyCode(key) == CASE key = "kA" -> 1 [] key = "kB" -> 2 [] OTHER -> 3

RECURSIVE CidCode(_)
\* A CID as a number: its own fields and, through created_by, its creator's.
CidCode(cid) ==
    IF Len(cid) # 2 THEN 1
    ELSE (TypeCode(cid[1].type) + 3 * cid[1].created_at + 5 * KeyCode(cid[2].key)
          + 7 * Len(cid[1].visibility) + 11 * Len(cid[1].because)
          + 13 * Cardinality(DOMAIN cid[1].content) + 17 * CidCode(cid[1].created_by)) % 65521

\* mmh3.hash(item, seed): a deterministic seeded hash of the item.
mmh3(item, seed) == CidCode(item) * (seed + 1) + 7 * seed

BloomPositions(item) == {mmh3(item, i) % BloomSize : i \in 0..(hash_count - 1)}

\* BloomFilter.add
BloomAdd(bits, item) == bits \cup BloomPositions(item)

\* BloomFilter.maybe_contains
maybe_contains(bits, item) == BloomPositions(item) \subseteq bits

---------------------------------------------------------------------------
\* WellspringNodeV2: construction and lookups.

\* self.identity_thought of the node called name (signed at construction).
IdentityThought(name) ==
    SignedThought("identity",
                  [name |-> <<name>>, pubkey |-> KeyOf[name], endpoint |-> "http://localhost"],
                  GENESIS, <<>>, <<>>, 0, KeyOf[name])

CidOf(name) == IdentityThought(name).cid

\* WellspringNodeV2.__init__
NewNode(name) ==
    [name |-> name,
     cid |-> CidOf(name),
     thoughts |-> <<IdentityThought(name)>>,
     pubkeys |-> DictSet(EmptyDict, CidOf(name), KeyOf[name]),
     bloom |-> BloomAdd({}, CidOf(name)),
     pool_memberships |-> EmptyDict,
     peer_shared_pools |-> EmptyDict,
     known_peers |-> EmptyDict,
     received_via |-> EmptyDict]

\* The keys of self.thoughts (a dict keeps insertion order).
Cids(ns) == {ns.thoughts[i].cid : i \in 1..Len(ns.thoughts)}

\* self.thoughts[cid]
ThoughtAt(ns, cid) == ns.thoughts[CHOOSE i \in 1..Len(ns.thoughts) : ns.thoughts[i].cid = cid]

\* self.thoughts[cid] = thought: a new key goes last, a known key keeps its place.
ThoughtsSet(thoughts, t) ==
    IF \E i \in 1..Len(thoughts) : thoughts[i].cid = t.cid
    THEN [i \in 1..Len(thoughts) |-> IF thoughts[i].cid = t.cid THEN t ELSE thoughts[i]]
    ELSE Append(thoughts, t)

\* WellspringNodeV2.is_pool_member
is_pool_member(ns, pool_cid, identity_cid) ==
    identity_cid \in DictGet(ns.pool_memberships, pool_cid, {})

\* WellspringNodeV2.get_shared_pools
get_shared_pools(ns, peer_cid) == DictGet(ns.peer_shared_pools, peer_cid, {})

\* WellspringNodeV2.add_pool_member, and the same update in
\* _process_pool_membership and create_pool.
MembershipAdd(memberships, pool_cid, member_cid) ==
    DictSet(memberships, pool_cid, DictGet(memberships, pool_cid, {}) \cup {member_cid})

---------------------------------------------------------------------------
\* Visibility filtering.

\* The visibility strings of the source.
Public == <<"public">>

LocalForever == <<"local_forever">>

ParticipantsOnly == <<"participants_only">>

\* f"pool:{pool_cid}"
PoolVisibility(pool_cid) == <<"pool:">> \o pool_cid

\* visibility.startswith("pool:")
IsPoolVisibility(visibility) == Len(visibility) >= 1 /\ visibility[1] = "pool:"

\* visibility[5:]
PoolOfVisibility(visibility) == Tail(visibility)

\* A _can_share_with_peer that withholds local_forever and nothing else.
_can_share_with_peer_unless_local(ns, thought, peer_cid) ==
    thought.visibility # LocalForever

\* A _can_share_with_peer that knows participants by identity CID only.
_can_share_with_peer_by_cid(ns, thought, peer_cid) ==
    IF thought.visibility = ParticipantsOnly
    THEN peer_cid \in Range(DictGet(thought.content, "participants", <<>>))
    ELSE thought.visibility \in {<<>>, Public}

\* WellspringNodeV2._can_share_with_peer (the boolean of the returned pair)
_can_share_with_peer(ns, thought, peer_cid) ==
    LET visibility == thought.visibility IN
    IF visibility = <<>> THEN TRUE
    ELSE IF visibility = Public THEN TRUE
    ELSE IF visibility = LocalForever THEN FALSE
    ELSE IF IsPoolVisibility(visibility) THEN
        LET pool_cid == PoolOfVisibility(visibility) IN
        IF is_pool_member(ns, pool_cid, peer_cid) THEN TRUE
        ELSE IF pool_cid \in get_shared_pools(ns, peer_cid) THEN TRUE
        ELSE FALSE
    ELSE IF visibility = ParticipantsOnly THEN
        LET participants == DictGet(thought.content, "participants", <<>>)
            peer_name == DictGet(DictGet(ns.known_peers, peer_cid, [content |-> EmptyDict]).content,
                                 "name", <<>>)
        IN  peer_cid \in Range(participants) \/ peer_name \in Range(participants)
    ELSE FALSE

---------------------------------------------------------------------------
\* Thought management.

\* WellspringNodeV2._verify_signature
_verify_signature(ns, thought) ==
    IF thought.type = "identity" /\ thought.created_by = GENESIS
    THEN Ed25519Verify(thought.content.pubkey, thought.signature, SignDataOf(thought))
    ELSE IF thought.created_by \in DOMAIN ns.pubkeys
    THEN Ed25519Verify(ns.pubkeys[thought.created_by], thought.signature, SignDataOf(thought))
    ELSE FALSE

\* WellspringNodeV2._process_pool_membership
_process_pool_membership(ns, thought) ==
    IF thought.type # "attestation" THEN ns
    ELSE IF DictGet(thought.content, "aspect_type", "") # "membership" THEN ns
    ELSE LET pool_cid == DictGet(thought.content, "pool", <<>>)
             member == DictGet(thought.content, "member", <<>>)
             member_cid == IF member # <<>> THEN member ELSE thought.created_by
         IN  IF pool_cid # <<>> /\ member_cid # <<>>
             THEN [ns EXCEPT !.pool_memberships = MembershipAdd(@, pool_cid, member_cid)]
             ELSE ns

\* _store_thought without the early return on a known CID.
_store_thought_always(ns, thought) ==
    IF ~_verify_signature(ns, thought) THEN [ns |-> ns, new |-> FALSE]
    ELSE LET s1 == [ns EXCEPT !.thoughts = ThoughtsSet(@, thought),
                              !.bloom = BloomAdd(@, thought.cid)]
             s2 == IF thought.type = "identity" /\ thought.created_by = GENESIS
                   THEN [s1 EXCEPT !.pubkeys = DictSet(@, thought.cid, thought.content.pubkey)]
                   ELSE s1
         IN  [ns |-> _process_pool_membership(s2, thought), new |-> TRUE]

\* WellspringNodeV2._store_thought: the node afterwards and the returned flag.
_store_thought(ns, thought) ==
    IF thought.cid \in Cids(ns) THEN [ns |-> ns, new |-> FALSE]
    ELSE IF ~_verify_signature(ns, thought) THEN [ns |-> ns, new |-> FALSE]
    ELSE LET s1 == [ns EXCEPT !.thoughts = ThoughtsSet(@, thought),
                              !.bloom = BloomAdd(@, thought.cid)]
             s2 == IF thought.type = "identity" /\ thought.created_by = GENESIS
                   THEN [s1 EXCEPT !.pubkeys = DictSet(@, thought.cid, thought.content.pubkey)]
                   ELSE s1
         IN  [ns |-> _process_pool_membership(s2, thought), new |-> TRUE]

\* _record_received_via that fills the lookup cache and stores no thought.
_record_received_via_cache_only(ns, thought_cid, sender_cid, now) ==
    [ns EXCEPT !.received_via = DictSet(@, thought_cid, sender_cid)]

\* _record_received_via that stores the provenance thought and leaves the
\* bloom filter as it is.
_record_received_via_no_bloom(ns, thought_cid, sender_cid, now) ==
    LET provenance ==
            SignedThought("connection",
                          [connection_type |-> "received_via",
                           thought |-> thought_cid,
                           via |-> sender_cid,
                           received_at |-> now],
                          ns.cid, <<thought_cid, sender_cid>>, LocalForever, now, KeyOf[ns.name])
    IN  [ns EXCEPT !.received_via = DictSet(@, thought_cid, sender_cid),
                   !.thoughts = ThoughtsSet(@, provenance)]

\* WellspringNodeV2._record_received_via at clock value now
_record_received_via(ns, thought_cid, sender_cid, now) ==
    LET provenance ==
            SignedThought("connection",
                          [connection_type |-> "received_via",
                           thought |-> thought_cid,
                           via |-> sender_cid,
                           received_at |-> now],
                          ns.cid, <<thought_cid, sender_cid>>, LocalForever, now, KeyOf[ns.name])
    IN  [ns EXCEPT !.received_via = DictSet(@, thought_cid, sender_cid),
                   !.thoughts = ThoughtsSet(@, provenance),
                   !.bloom = BloomAdd(@, provenance.cid)]

---------------------------------------------------------------------------
\* Sync with visibility filtering.

\* WellspringNodeV2.get_missing_for_peer: every list it can return.  The three
\* sets are Python sets, iterated in an order the program does not control.
get_missing_for_peer(ns, peer_bloom, peer_cid) ==
    LET missing_cids == {cid \in Cids(ns) : ~maybe_contains(peer_bloom, cid)}
        shareable_cids == {cid \in missing_cids :
                              _can_share_with_peer(ns, ThoughtAt(ns, cid), peer_cid)}
        needed_identities ==
            {ThoughtAt(ns, cid).created_by : cid \in
                {c \in shareable_cids :
                    LET created_by == ThoughtAt(ns, c).created_by IN
                    /\ created_by # GENESIS
                    /\ created_by \in Cids(ns)
                    /\ ~maybe_contains(peer_bloom, created_by)
                    /\ _can_share_with_peer(ns, ThoughtAt(ns, created_by), peer_cid)}}
    IN  {[i \in 1..Len(ids) |-> ThoughtAt(ns, ids[i])] \o [i \in 1..Len(rest) |-> ThoughtAt(ns, rest[i])] :
            ids \in Perms(needed_identities \ shareable_cids), rest \in Perms(shareable_cids)}

\* The sort key of receive_thoughts.
ReceiveKeyLeq(a, b) ==
    LET ka == IF a.type = "identity" THEN 0 ELSE 1
        kb == IF b.type = "identity" THEN 0 ELSE 1
    IN  ka < kb \/ (ka = kb /\ a.created_at <= b.created_at)

RECURSIVE SortedInsert(_, _)
\* t goes behind every element whose key is not larger (sorted() is stable).
SortedInsert(sorted, t) ==
    IF Len(sorted) = 0 THEN <<t>>
    ELSE IF ReceiveKeyLeq(Head(sorted), t) THEN <<Head(sorted)>> \o SortedInsert(Tail(sorted), t)
    ELSE <<t>> \o sorted

RECURSIVE ReceiveSorted(_)
\* sorted(thoughts, key=...)
ReceiveSorted(thoughts) ==
    IF Len(thoughts) = 0 THEN <<>>
    ELSE CHOOSE out \in {SortedInsert(front, thoughts[Len(thoughts)]) :
                            front \in {ReceiveSorted(SubSeq(thoughts, 1, Len(thoughts) - 1))}} : TRUE

\* One iteration of either loop of receive_thoughts.  st carries the node, the
\* clock, new_count and the deferred list; defer is FALSE in the second loop.
\* (Here and below, "CHOOSE out \in {f(x) : x \in {e}} : TRUE" is f(e) with e
\* worked out once.)
ReceiveStep(st, thought, sender_cid, defer) ==
    CHOOSE out \in
        {IF r.new THEN
             IF sender_cid # <<>>
             THEN [st EXCEPT !.ns = _record_received_via(r.ns, thought.cid, sender_cid, st.now),
                             !.now = @ + 1,
                             !.new = @ + 1]
             ELSE [st EXCEPT !.ns = r.ns, !.new = @ + 1]
         ELSE IF defer /\ thought.cid \notin Cids(st.ns)
         THEN [st EXCEPT !.deferred = Append(@, thought)]
         ELSE st : r \in {_store_thought(st.ns, thought)}} : TRUE

RECURSIVE ReceiveLoop(_, _, _, _)
\* A loop of receive_thoughts over thoughts, from state st.
ReceiveLoop(st, thoughts, sender_cid, defer) ==
    IF Len(thoughts) = 0 THEN st
    ELSE CHOOSE out \in {ReceiveLoop(next, Tail(thoughts), sender_cid, defer) :
                            next \in {ReceiveStep(st, Head(thoughts), sender_cid, defer)}} : TRUE

\* receive_thoughts without the second loop over the deferred thoughts.
receive_thoughts_one_pass(ns, t0, thoughts, sender_cid) ==
    CHOOSE out \in
        {ReceiveLoop([ns |-> ns, now |-> t0, new |-> 0, deferred |-> <<>>],
                     sorted, sender_cid, TRUE) :
            sorted \in {ReceiveSorted(thoughts)}} : TRUE

\* WellspringNodeV2.receive_thoughts at clock value t0: the node afterwards,
\* the clock afterwards and the "new" of the returned stats.
receive_thoughts(ns, t0, thoughts, sender_cid) ==
    CHOOSE out \in
        {ReceiveLoop(first, first.deferred, sender_cid, FALSE) :
            first \in {ReceiveLoop([ns |-> ns, now |-> t0, new |-> 0, deferred |-> <<>>],
                                   sorted, sender_cid, TRUE) :
                          sorted \in {ReceiveSorted(thoughts)}}} : TRUE

---------------------------------------------------------------------------
\* Peer relationship management.

\* WellspringNodeV2.register_peer
register_peer(ns, peer_identity) ==
    LET s1 == [ns EXCEPT !.known_peers = DictSet(@, peer_identity.cid, peer_identity)] IN
    IF peer_identity.type = "identity"
    THEN [s1 EXCEPT !.pubkeys = DictSet(@, peer_identity.cid, peer_identity.content.pubkey)]
    ELSE s1

\* WellspringNodeV2.establish_peering
establish_peering(ns, peer_cid, shared_pools) ==
    [ns EXCEPT !.peer_shared_pools = DictSet(@, peer_cid, DictGet(@, peer_cid, {}) \cup shared_pools)]

---------------------------------------------------------------------------
\* What callers send to the HTTP handlers.

\* CIDs of the pool thoughts stored at a node.
PoolsAt(ns) == {t.cid : t \in {x \in Range(ns.thoughts) : x.type = "pool"}}

KnownPools == UNION {PoolsAt(node[n]) : n \in Nodes}

\* CreateThoughtRequest bodies posted to /thoughts at node n.
ThoughtRequests(n) ==
    {[type |-> "note", content |-> [title |-> "t"], because |-> <<>>, visibility |-> v] :
        v \in {<<>>, LocalForever} \cup {PoolVisibility(p) : p \in PoolsAt(node[n])}}
    \cup {[type |-> "note", content |-> [title |-> "dm", participants |-> <<who>>],
           because |-> <<>>, visibility |-> ParticipantsOnly] :
            who \in {<<m>> : m \in Nodes \ {n}}}
    \cup {[type |-> "attestation",
           content |-> [aspect_type |-> "membership", pool |-> p, member |-> CidOf(m)],
           because |-> <<p>>, visibility |-> <<>>] :
            p \in PoolsAt(node[n]), m \in Nodes \ {n}}

\* A thought the outsider made with its own key.
OutsiderNote ==
    SignedThought("note", [title |-> "t"], CidOf(Outsider), <<>>, <<>>, 0, KeyOf[Outsider])

\* A thought that names node A's identity as creator but is signed by the outsider.
ImpostorNote ==
    SignedThought("note", [title |-> "t"], CidOf("A"), <<>>, <<>>, 0, KeyOf[Outsider])

\* The outsider's note sent under a CID that its fields do not hash to.
MislabelledNote == [OutsiderNote EXCEPT !.cid = <<"baf_other">>]

\* The outsider's identity dict sent under the CID of node A's identity.
MislabelledIdentity == [IdentityThought(Outsider) EXCEPT !.cid = CidOf("A")]

\* The identity of a device the outsider manages: created by the outsider's
\* identity and signed with the outsider's key.
OutsiderDevice ==
    SignedThought("identity",
                  [name |-> <<"phone">>, pubkey |-> "kPhone", autonomy |-> "managed"],
                  CidOf(Outsider), <<CidOf(Outsider)>>, <<>>, 0, KeyOf[Outsider])

\* What the outsider has made and signed: its identity, a note and the
\* identity of its device.
OutsiderOwnThoughts == {IdentityThought(Outsider), OutsiderNote, OutsiderDevice}

\* The batches of these, in every order.
OutsiderOwnBatches == UNION {[1..k -> OutsiderOwnThoughts] : k \in 1..(MaxBatch + 1)}

\* Dicts an outside caller posts to /receive.
OutsiderThoughts ==
    {IdentityThought(Outsider), OutsiderNote, ImpostorNote, MislabelledNote}

OutsiderBatches == UNION {[1..k -> OutsiderThoughts] : k \in 1..MaxBatch}

\* Identity dicts the test driver posts to /peering at node n.
DriverIdentities(n) == {IdentityThought(m) : m \in Nodes \ {n}}

\* Identity dicts any caller may post to /peering.
OpenIdentities == {IdentityThought(Outsider), MislabelledIdentity}

NoTransfer == [from |-> <<>>, to |-> <<>>, thoughts |-> <<>>]

---------------------------------------------------------------------------
\* The HTTP handlers of create_app, one action each.

\* POST /thoughts: WellspringNodeV2.create_thought
CreateThought(n) ==
    /\ utcnow <= MaxTime
    /\ \E req \in ThoughtRequests(n) :
        LET thought == SignedThought(req.type, req.content, node[n].cid, req.because,
                                     req.visibility, utcnow, KeyOf[n])
        IN  node' = [node EXCEPT ![n] = _store_thought(@, thought).ns]
    /\ utcnow' = utcnow + 1
    /\ UNCHANGED <<wire, notNodeVars>>

\* POST /pools: WellspringNodeV2.create_pool
CreatePool(n) ==
    /\ utcnow <= MaxTime
    /\ Cardinality(KnownPools) < MaxPools
    /\ LET thought == SignedThought("pool",
                                    [name |-> <<"team">>, visibility |-> "members_only",
                                     access |-> "invite", admin |-> node[n].cid],
                                    node[n].cid, <<node[n].cid>>, <<>>, utcnow, KeyOf[n])
           stored == _store_thought(node[n], thought).ns
       IN  node' = [node EXCEPT ![n] =
                       [stored EXCEPT !.pool_memberships = DictSet(@, thought.cid, {stored.cid})]]
    /\ utcnow' = utcnow + 1
    /\ UNCHANGED <<wire, notNodeVars>>

\* POST /pools/{pool_cid}/members: WellspringNodeV2.add_pool_member
AddPoolMember(n) ==
    /\ \E pool_cid \in PoolsAt(node[n]), member_cid \in {CidOf(m) : m \in Nodes \ {n}} :
        node' = [node EXCEPT ![n].pool_memberships = MembershipAdd(@, pool_cid, member_cid)]
    /\ UNCHANGED <<utcnow, wire, notNodeVars>>

\* POST /peering: register_peer, then establish_peering
Peering(n, identities) ==
    /\ \E peer_identity \in identities, shared_pools \in {{}} \cup {{p} : p \in PoolsAt(node[n])} :
        node' = [node EXCEPT ![n] =
                    establish_peering(register_peer(@, peer_identity), peer_identity.cid, shared_pools)]
    /\ UNCHANGED <<utcnow, wire, notNodeVars>>

\* SyncRequest bodies posted to /sync at node n: sync_nodes of the test driver
\* sends the bloom it fetched from the other node (GET /bloom) and that node's CID.
SyncRequests(n) ==
    {[bloom_hex |-> node[m].bloom, sender_cid |-> node[m].cid] : m \in Nodes \ {n}}

\* POST /sync, when the driver has no earlier response left to post
Sync(n) ==
    /\ Len(wire.thoughts) = 0
    /\ \E request \in SyncRequests(n) :
        \E missing \in get_missing_for_peer(node[n], request.bloom_hex, request.sender_cid) :
            wire' = [from |-> node[n].cid, to |-> request.sender_cid, thoughts |-> missing]
    /\ UNCHANGED <<node, utcnow, notNodeVars>>

\* POST /receive with the thoughts a /sync response carried (sync_nodes posts
\* them when count > 0), from the node that answered.
Receive(n) ==
    /\ wire.to = node[n].cid
    /\ Len(wire.thoughts) > 0
    /\ \E r \in {receive_thoughts(node[n], utcnow, wire.thoughts, wire.from)} :
        /\ node' = [node EXCEPT ![n] = r.ns]
        /\ utcnow' = r.now
    /\ wire' = NoTransfer
    /\ UNCHANGED notNodeVars

\* POST /receive by an outside caller with dicts of its own making.
ReceiveFromOutsider(n) ==
    /\ \E thoughts \in OutsiderBatches :
        \E r \in {receive_thoughts(node[n], utcnow, thoughts, CidOf(Outsider))} :
        /\ node' = [node EXCEPT ![n] = r.ns]
        /\ utcnow' = r.now
    /\ UNCHANGED <<wire, notNodeVars>>

\* POST /receive by the outsider with a batch of what it has signed itself.
ReceiveOwnBatch(n) ==
    /\ \E thoughts \in OutsiderOwnBatches :
        \E r \in {receive_thoughts(node[n], utcnow, thoughts, CidOf(Outsider))} :
        /\ node' = [node EXCEPT ![n] = r.ns]
        /\ utcnow' = r.now
    /\ UNCHANGED <<wire, notNodeVars>>

---------------------------------------------------------------------------
\* The relay of wellspring_peering.py.

\* SimulatedRelay._can_see, for a relay whose pool_members is members
_can_see(members, thought, viewer_identity) ==
    IF thought.visibility = <<>> THEN TRUE
    ELSE IF thought.visibility = LocalForever THEN thought.created_by = viewer_identity
    ELSE IF IsPoolVisibility(thought.visibility)
    THEN viewer_identity \in DictGet(members, PoolOfVisibility(thought.visibility), {})
    ELSE FALSE

\* The identities that publish to the relay and pull from it.
RelayIdentities == {"alice", "bear"}

\* The thoughts published to the relay, as far as _can_see reads them.
RelayThoughts ==
    [created_by : RelayIdentities,
     visibility : {<<>>, Public, LocalForever, ParticipantsOnly, PoolVisibility(<<"p">>),
                   <<"friends_only">>, <<"members_only">>}]

\* The pool_members a relay can hold.
RelayMembers ==
    {EmptyDict} \cup {DictSet(EmptyDict, <<"p">>, ids) : ids \in SUBSET RelayIdentities}

---------------------------------------------------------------------------
\* Direct messages: thoughts of visibility participants_only, addressed by
\* identity CID or by display name.

\* CreateThoughtRequest bodies with a participants list, posted to /thoughts
\* at node n: the sender by name, and any of the CID and the name of the
\* other node.
DirectMessageRequests(n) ==
    {[type |-> "message",
      content |-> [text |-> "dm", participants |-> <<<<n>>>> \o others],
      because |-> <<>>, visibility |-> ParticipantsOnly] :
        others \in UNION {{<<>>, <<CidOf(m)>>, <<<<m>>>>} : m \in Nodes \ {n}}}

\* CreateThoughtRequest bodies whose visibility is none of the values the
\* node knows.
OddVisibilityRequests ==
    {[type |-> "note", content |-> [title |-> "t"], because |-> <<>>, visibility |-> v] :
        v \in {<<"friends_only">>, <<"members_only">>}}

\* POST /thoughts with one of the bodies in requests:
\* WellspringNodeV2.create_thought
PostThought(n, requests) ==
    /\ utcnow <= MaxTime
    /\ \E req \in requests :
        LET thought == SignedThought(req.type, req.content, node[n].cid, req.because,
                                     req.visibility, utcnow, KeyOf[n])
        IN  node' = [node EXCEPT ![n] = _store_thought(@, thought).ns]
    /\ utcnow' = utcnow + 1
    /\ UNCHANGED <<wire, notNodeVars>>

---------------------------------------------------------------------------
\* Revocation of a device (wellspring_revocation.py), at the node of the
\* owner of the pool.  The device holds its key and posts what it signs to
\* /receive of the owner's node.

Owner == "A"

Device == "B"

\* The membership attestations on the device that node ns has stored.
MembershipsOf(ns, member_cid) ==
    {t \in Range(ns.thoughts) :
        /\ t.type = "attestation"
        /\ DictGet(t.content, "aspect_type", "") = "membership"
        /\ DictGet(t.content, "member", <<>>) = member_cid}

\* CreateThoughtRequest bodies the owner posts to /thoughts at node n: the
\* attestation that makes the device a member of a pool, and the revocation
\* of wellspring_revocation.main, an attestation of weight -1.0 (in tenths)
\* on a stored membership.
AttestationRequests(n) ==
    {[type |-> "attestation",
      content |-> [aspect_type |-> "membership", pool |-> p, member |-> CidOf(Device)],
      because |-> <<p>>, visibility |-> <<>>] : p \in PoolsAt(node[n])}
    \cup {[type |-> "attestation",
           content |-> [on |-> m.cid, weight |-> -10],
           because |-> <<m.cid>>, visibility |-> <<>>] :
            m \in MembershipsOf(node[n], CidOf(Device))}

\* POST /thoughts with an attestation: WellspringNodeV2.create_thought
Attest(n) ==
    /\ utcnow <= MaxRevokeTime
    /\ \E req \in AttestationRequests(n) :
        LET thought == SignedThought(req.type, req.content, node[n].cid, req.because,
                                     req.visibility, utcnow, KeyOf[n])
        IN  node' = [node EXCEPT ![n] = _store_thought(@, thought).ns]
    /\ utcnow' = utcnow + 1
    /\ UNCHANGED <<wire, notNodeVars>>

\* POST /receive by the device with a note it has just signed for a pool.
DevicePost(n) ==
    /\ utcnow <= MaxRevokeTime
    /\ \E p \in PoolsAt(node[n]) :
        LET note == SignedThought("note", [title |-> "t"], CidOf(Device), <<>>,
                                  PoolVisibility(p), utcnow, KeyOf[Device])
        IN  \E r \in {receive_thoughts(node[n], utcnow, <<note>>, CidOf(Device))} :
            /\ node' = [node EXCEPT ![n] = r.ns]
            /\ utcnow' = r.now
    /\ UNCHANGED <<wire, notNodeVars>>

---------------------------------------------------------------------------
\* Part II.  thread-3: core.py.

\* The identity of this daemon and of the peer at the other end of the channel.
Daemon == "D"

Remote == "R"

PeerKey == [n \in {Daemon, Remote} |-> IF n = Daemon THEN "kD" ELSE "kR"]

\* core.canonicalize of a signable mapping, one token per key in sort_keys
\* order; visibility and source are keys only when truthy.
canonicalize(type, content, created_by, created_at, because, visibility, source) ==
    <<ToString(because), ToString(content), ToString(created_at), ToString(created_by)>>
    \o (IF source # <<>> THEN <<"source">> \o source ELSE <<>>)
    \o <<type>>
    \o (IF visibility # <<>> THEN <<"visibility">> \o visibility ELSE <<>>)

\* blake3.blake3(bytes).digest()
blake3(bytes) == bytes

\* core.compute_cid applied to canonical bytes: f"cid:blake3:{digest}"
core_compute_cid(canonical) == <<"cid:blake3:">> \o blake3(canonical)

\* core.compute_cid_bytes applied to canonical bytes: 4 header bytes, then the digest
compute_cid_bytes(canonical) == <<"01711e20">> \o blake3(canonical)

\* core.create_identity(name).cid
IdentityCid(name) == core_compute_cid(<<"identity", name, PeerKey[name]>>)

\* core.sign_content
sign_content(cid, name) == Ed25519Sign(PeerKey[name], cid)

\* core.verify_signature
verify_signature(thought, pubkey) == Ed25519Verify(pubkey, thought.signature, thought.cid)

\* core.create_thought at clock value created_at
create_thought(content, thought_type, name, because, visibility, source, created_at) ==
    LET cid == core_compute_cid(canonicalize(thought_type, content, IdentityCid(name),
                                             created_at, because, visibility, source))
    IN  [cid |-> cid,
         type |-> thought_type,
         content |-> content,
         created_by |-> IdentityCid(name),
         created_at |-> created_at,
         because |-> because,
         signature |-> sign_content(cid, name),
         visibility |-> visibility,
         source |-> source]

\* core.store_thought: INSERT OR REPLACE into the table, then one more line
\* of thoughts.jsonl.  The pair is (table, log) afterwards.
store_thought(table, log, thought) ==
    [db |-> DictSet(table, thought.cid, thought), jsonl |-> Append(log, thought)]

\* core.store_thought of a process that dies after conn.commit() and before
\* the line is written: the row is in the table, the log is as it was.
store_thought_interrupted(table, log, thought) ==
    [db |-> DictSet(table, thought.cid, thought), jsonl |-> log]

\* core.get_thought
get_thought(table, cid) == DictGet(table, cid, <<>>)

\* core.query_thoughts(limit): every order "ORDER BY created_at DESC LIMIT ?"
\* can give (rows of equal created_at come in any order).
query_thoughts(table, limit) ==
    {[i \in 1..(IF Len(order) < limit THEN Len(order) ELSE limit) |-> table[order[i]]] :
        order \in {o \in Perms(DOMAIN table) :
                      \A i \in 1..(Len(o) - 1) : table[o[i]].created_at >= table[o[i + 1]].created_at}}

---------------------------------------------------------------------------
\* thread-3: peer_service.py.

\* The signable mapping thought_to_payload and the bloom code rebuild.
SignableOf(thought) ==
    canonicalize(thought.type, thought.content, thought.created_by, thought.created_at,
                 thought.because, thought.visibility, thought.source)

\* thought_to_payload with a signable mapping that leaves the visibility
\* key out of the CID bytes.
thought_to_payload_unscoped(thought) ==
    [cid |-> compute_cid_bytes(canonicalize(thought.type, thought.content, thought.created_by,
                                            thought.created_at, thought.because, <<>>,
                                            thought.source)),
     thought_cbor |-> SignableOf(thought),
     thought_proto |-> thought,
     signature |-> thought.signature,
     source |-> thought.source]

\* peer_service.thought_to_payload
thought_to_payload(thought) ==
    [cid |-> compute_cid_bytes(SignableOf(thought)),
     thought_cbor |-> SignableOf(thought),
     thought_proto |-> thought,
     signature |-> thought.signature,
     source |-> thought.source]

\* The key ExchangeBloom and WotPeerClient.sync add to the filter for a
\* stored thought: compute_cid_bytes of a mapping with the five keys type,
\* content, created_by, created_at and because.
bloom_cid_bytes(t) ==
    compute_cid_bytes(canonicalize(t.type, t.content, t.created_by, t.created_at, t.because,
                                   <<>>, <<>>))

\* peer_service.payload_to_thought; <<>> stands for None
payload_to_thought(payload) ==
    LET computed_cid == blake3(payload.thought_cbor)
        received_cid == Tail(payload.cid)
    IN  IF computed_cid # received_cid THEN <<>> ELSE payload.thought_proto

\* Want turns the requested bytes into the string key: cid_bytes[4:].hex()
\* behind "cid:blake3:".
WantKey(cid_bytes) == <<"cid:blake3:">> \o Tail(cid_bytes)

ACK_ACCEPTED == "ACK_ACCEPTED"

ACK_REJECTED == "ACK_REJECTED"

\* One iteration of the loop of WotPeerService.Push.
PushStep(st, payload) ==
    LET thought == payload_to_thought(payload) IN
    IF thought = <<>>
    THEN [st EXCEPT !.acks = Append(@, [cid |-> payload.cid, status |-> ACK_REJECTED])]
    ELSE LET stored == store_thought(st.db, st.jsonl, thought)
         IN  [db |-> stored.db, jsonl |-> stored.jsonl,
              acks |-> Append(st.acks, [cid |-> payload.cid, status |-> ACK_ACCEPTED])]

RECURSIVE PushLoop(_, _)
PushLoop(st, payloads) ==
    IF Len(payloads) = 0 THEN st
    ELSE PushLoop(PushStep(st, Head(payloads)), Tail(payloads))

\* EmbeddingPipeline.embed_thought: a row for a CID that has none;
\* appetite_status, trust_weight (in tenths) and chain_depth take the
\* defaults of their columns.
embed_thought(metadata, thought, pool_cid) ==
    IF thought.cid \in DOMAIN metadata THEN metadata
    ELSE DictSet(metadata, thought.cid,
                 [pool_cid |-> pool_cid, thought_type |-> thought.type,
                  created_at |-> thought.created_at,
                  appetite_status |-> "welcomed", trust_weight |-> 10, chain_depth |-> 0])

\* EmbeddingPipeline.APPETITE_STATUSES, the weights in tenths
APPETITE_STATUSES ==
    [status \in {"welcomed", "unauthorized_claim", "unverified_source", "low_trust_path",
                 "pending_attestation", "flagged"} |->
        CASE status = "welcomed" -> 10
          [] status = "unauthorized_claim" -> 3
          [] status = "unverified_source" -> 5
          [] status = "low_trust_path" -> 4
          [] status = "pending_attestation" -> 0
          [] status = "flagged" -> 1]

\* EmbeddingPipeline.set_appetite for a valid status; trust_weight is <<>>
\* for None, <<w>> for an override.  The UPDATE touches the row of cid only.
set_appetite(metadata, cid, status, trust_weight) ==
    LET weight == IF trust_weight # <<>> THEN trust_weight[1] ELSE APPETITE_STATUSES[status]
    IN  IF cid \notin DOMAIN metadata THEN metadata
        ELSE [metadata EXCEPT ![cid].appetite_status = status, ![cid].trust_weight = weight]

\* EmbeddingPipeline.set_trust_weight
set_trust_weight(metadata, cid, weight) ==
    IF cid \notin DOMAIN metadata THEN metadata
    ELSE [metadata EXCEPT ![cid].trust_weight = weight]

\* EmbeddingPipeline.set_chain_depth
set_chain_depth(metadata, cid, depth) ==
    IF cid \notin DOMAIN metadata THEN metadata
    ELSE [metadata EXCEPT ![cid].chain_depth = depth]

\* Milliseconds in an hour: the divisor of hours_old in query.
MsPerHour == 3600000

\* The default recency_decay of query, in 1/10000 per hour.
recency_decay == 1

\* The recency factor of query in 1/10000, for a clock on a whole hour:
\* max(0.5, 1.0 - recency_decay * hours_old), 1.0 for a row without created_at.
Recency(row, now_ms) ==
    IF recency_decay > 0 /\ row.created_at # 0
    THEN LET hours_old == (now_ms - row.created_at) \div MsPerHour
             decayed == 10000 - recency_decay * hours_old
         IN  IF decayed > 5000 THEN decayed ELSE 5000
    ELSE 10000

\* The body of the loop of EmbeddingPipeline.query for one row whose cosine
\* similarity to the query is `similarity` tenths: the relevance, as the
\* fraction <<numerator, denominator>> of 1/100000.
\*   trust = trust_weight if trust_weight else 1.0
\*   chain_boost = 1.0 / (1.0 + (chain_depth or 0) * 0.1)
\*   relevance = similarity * trust * chain_boost * recency
relevance(row, similarity, apply_trust_weighting, now_ms) ==
    IF apply_trust_weighting
    THEN LET trust == IF row.trust_weight # 0 THEN row.trust_weight ELSE 10
         IN  <<similarity * trust * Recency(row, now_ms), 10 + row.chain_depth>>
    ELSE <<similarity * 10000, 1>>

\* The rows EmbeddingPipeline.query scores: all of them, or all but those
\* pending attestation.
query_rows(metadata, exclude_pending) ==
    {cid \in DOMAIN metadata :
        ~(exclude_pending /\ metadata[cid].appetite_status = "pending_attestation")}

\* One iteration of the loop of WotPeerService.Push where get_rag() gives the
\* RAG; self.pool_cid is None, as daemon.serve constructs the service.
PushIndexedStep(st, payload) ==
    LET thought == payload_to_thought(payload) IN
    IF thought = <<>>
    THEN [st EXCEPT !.acks = Append(@, [cid |-> payload.cid, status |-> ACK_REJECTED])]
    ELSE LET stored == store_thought(st.db, st.jsonl, thought)
         IN  [db |-> stored.db, jsonl |-> stored.jsonl,
              acks |-> Append(st.acks, [cid |-> payload.cid, status |-> ACK_ACCEPTED]),
              embedding_metadata |-> embed_thought(st.embedding_metadata, thought, <<>>)]

RECURSIVE PushIndexedLoop(_, _)
PushIndexedLoop(st, payloads) ==
    IF Len(payloads) = 0 THEN st
    ELSE PushIndexedLoop(PushIndexedStep(st, Head(payloads)), Tail(payloads))

\* len(json.dumps(content).encode()): "blob" stands for a string of 69998
\* characters, the other contents are three letters between quotes.
JsonBytes(content) == IF content = "blob" THEN 70000 ELSE 5

\* The rules of the pool get_default_pool creates.
WotRules ==
    [accept_schemas |-> <<"basic", "insight", "question", "decision", "trace", "message">>,
     require_because |-> FALSE,
     max_payload_bytes |-> 65536]

\* PoolRules(): the rules of a pool created without rules.
DefaultRules ==
    [accept_schemas |-> <<>>, require_because |-> TRUE, max_payload_bytes |-> 65536]

\* pool.apply_pool_rules for a pool that get_pool finds, with these rules
apply_pool_rules(thought, rules) ==
    LET errors ==
            (IF Len(rules.accept_schemas) > 0 /\ thought.type \notin Range(rules.accept_schemas)
             THEN <<"Schema not allowed in pool">> ELSE <<>>)
            \o (IF rules.require_because /\ Len(thought.because) = 0
                THEN <<"Because chain required">> ELSE <<>>)
            \o (IF JsonBytes(thought.content) > rules.max_payload_bytes
                THEN <<"Payload exceeds max">> ELSE <<>>)
    IN  IF Len(errors) > 0
        THEN [valid |-> FALSE, errors |-> errors, appetite |-> "unauthorized_claim"]
        ELSE [valid |-> TRUE, errors |-> <<>>, appetite |-> "welcomed"]

---------------------------------------------------------------------------
\* thread-3: what callers send.

\* The pool of the daemon's seed data (pool_mgmt.get_default_pool(identity).cid).
DefaultPool == core_compute_cid(<<"pool", "default">>)

\* Arguments of core.create_thought in daemon.seed_data, wellspring_agent and
\* ingest_traces: visibility is the seed pool, local_forever or none.
LocalRequests ==
    {[content |-> "WoT", type |-> "insight", visibility |-> v, source |-> <<"seed/test">>] :
        v \in {<<>>, LocalForever, PoolVisibility(DefaultPool)}}

\* Thoughts the remote peer made with core.create_thought.
RemoteThought(content) == create_thought(content, "basic", Remote, <<>>, <<>>, <<"test/peering">>, 0)

\* A thought that names the remote peer as creator, signed with another key.
BadSignatureThought ==
    [RemoteThought("fox") EXCEPT !.signature = Ed25519Sign("kX", RemoteThought("fox").cid)]

\* Payloads a peer streams into Push: built by thought_to_payload; with a
\* CID that does not match the canonical bytes; with a proto that is not the
\* thought of the canonical bytes; with a signature of another key.
PushPayloads ==
    {thought_to_payload(RemoteThought("fox")),
     thought_to_payload(BadSignatureThought),
     [thought_to_payload(RemoteThought("fox")) EXCEPT !.cid = compute_cid_bytes(<<"other">>)],
     [thought_to_payload(RemoteThought("fox")) EXCEPT
         !.thought_proto = [RemoteThought("dog") EXCEPT !.cid = RemoteThought("fox").cid]]}

PushStreams == UNION {[1..k -> PushPayloads] : k \in 1..MaxBatch}

NoStream == [rpc |-> "", payloads |-> <<>>]

---------------------------------------------------------------------------
\* thread-3: the operations of the daemon, one action each.

\* core.create_thought followed by core.store_thought (daemon.seed_data)
LocalStore ==
    /\ time_ms <= MaxTime
    /\ Len(jsonl) < MaxLog
    /\ \E req \in LocalRequests :
        LET thought == create_thought(req.content, req.type, Daemon, <<>>, req.visibility,
                                      req.source, time_ms)
            stored == store_thought(db, jsonl, thought)
        IN  /\ db' = stored.db
            /\ jsonl' = stored.jsonl
    /\ time_ms' = time_ms + 1
    /\ UNCHANGED <<stream, acks, notPeerVars>>

\* core.create_thought followed by a core.store_thought during which the
\* process is killed, between the commit of the INSERT and the append to
\* thoughts.jsonl; the daemon is started again afterwards.
LocalStoreInterrupted ==
    /\ time_ms <= MaxTime
    /\ \E req \in LocalRequests :
        LET thought == create_thought(req.content, req.type, Daemon, <<>>, req.visibility,
                                      req.source, time_ms)
            stored == store_thought_interrupted(db, jsonl, thought)
        IN  /\ db' = stored.db
            /\ jsonl' = stored.jsonl
    /\ time_ms' = time_ms + 1
    /\ UNCHANGED <<stream, acks, notPeerVars>>

\* WotPeerService.Push
Push ==
    /\ \E payloads \in PushStreams :
        LET st == PushLoop([db |-> db, jsonl |-> jsonl, acks |-> <<>>], payloads) IN
        /\ Len(st.jsonl) <= MaxLog
        /\ db' = st.db
        /\ jsonl' = st.jsonl
        /\ acks' = st.acks
    /\ UNCHANGED <<time_ms, stream, notPeerVars>>

\* Arguments of core.create_thought at the peer, as test_peering passes
\* them: with and without visibility, with and without source.
CreateRequests ==
    {[content |-> "fox", visibility |-> v, source |-> src] :
        v \in {<<>>, LocalForever, PoolVisibility(DefaultPool)},
        src \in {<<>>, <<"test/peering">>}}

\* The thoughts core.create_thought builds for them.
CreatedThoughts ==
    {create_thought(req.content, "basic", Remote, <<>>, req.visibility, req.source, 0) :
        req \in CreateRequests}

\* WotPeerClient.push_thoughts of thoughts the peer created, received by
\* WotPeerService.Push; stream keeps what the client sent.
PushCreated ==
    /\ \E thoughts \in UNION {[1..k -> CreatedThoughts] : k \in 1..MaxBatch} :
        LET payloads == [i \in 1..Len(thoughts) |-> thought_to_payload(thoughts[i])]
            st == PushLoop([db |-> db, jsonl |-> jsonl, acks |-> <<>>], payloads)
        IN  /\ Len(st.jsonl) <= MaxLog
            /\ db' = st.db
            /\ jsonl' = st.jsonl
            /\ acks' = st.acks
            /\ stream' = [rpc |-> "Push", payloads |-> payloads]
    /\ UNCHANGED <<time_ms, notPeerVars>>

\* Thoughts the remote peer made for a pool: of a type the pool accepts;
\* of a type it does not accept; with a content above max_payload_bytes.
RemotePoolThoughts ==
    {create_thought(req.content, req.type, Remote, <<>>, <<>>, <<"test/peering">>, 0) :
        req \in {[content |-> "fox", type |-> "basic"],
                 [content |-> "fox", type |-> "rant"],
                 [content |-> "blob", type |-> "basic"]}}

PoolStreams == UNION {[1..k -> {thought_to_payload(t) : t \in RemotePoolThoughts}] : k \in 1..MaxBatch}

\* WotPeerService.Push of a daemon that has the RAG of thread-2: what is
\* stored is indexed as well.
PushIndexed ==
    /\ \E payloads \in PoolStreams :
        LET st == PushIndexedLoop([db |-> db, jsonl |-> jsonl, acks |-> <<>>,
                                   embedding_metadata |-> embedding_metadata], payloads) IN
        /\ Len(st.jsonl) <= MaxLog
        /\ db' = st.db
        /\ jsonl' = st.jsonl
        /\ acks' = st.acks
        /\ embedding_metadata' = st.embedding_metadata
    /\ UNCHANGED <<time_ms, stream, nodeVars, trustVars, repeater_graph, poolVars, appetiteVars,
                   serviceVars>>

\* Weights set_appetite and set_trust_weight are called with, in tenths.
RagWeights == {0}

\* Statuses set_appetite is called with.
RagStatuses == {"welcomed", "pending_attestation", "flagged"}

\* RAGService.set_appetite -> EmbeddingPipeline.set_appetite
SetAppetite ==
    /\ \E cid \in DOMAIN embedding_metadata, status \in RagStatuses,
          trust_weight \in {<<>>} \cup {<<w>> : w \in RagWeights} :
        embedding_metadata' = set_appetite(embedding_metadata, cid, status, trust_weight)
    /\ UNCHANGED <<peerVars, nodeVars, trustVars, repeater_graph, poolVars, appetiteVars, serviceVars>>

\* EmbeddingPipeline.set_trust_weight
SetTrustWeight ==
    /\ \E cid \in DOMAIN embedding_metadata, weight \in RagWeights :
        embedding_metadata' = set_trust_weight(embedding_metadata, cid, weight)
    /\ UNCHANGED <<peerVars, nodeVars, trustVars, repeater_graph, poolVars, appetiteVars, serviceVars>>

\* EmbeddingPipeline.set_chain_depth
SetChainDepth ==
    /\ \E cid \in DOMAIN embedding_metadata, depth \in 0..MaxChainDepth :
        embedding_metadata' = set_chain_depth(embedding_metadata, cid, depth)
    /\ UNCHANGED <<peerVars, nodeVars, trustVars, repeater_graph, poolVars, appetiteVars, serviceVars>>

\* The threads of grpc.server(futures.ThreadPoolExecutor(...)) that handle
\* a Hello call each, on the one WotPeerService object.
Workers == 1..MaxWorkers

\* The identity_cid of the HelloRequest worker thread w handles.
HelloIdentity(w) == <<"peer", w>>

\* WotPeerService.__init__, and threads that have not been handed a call.
ServiceIdle ==
    /\ session_counter = 0
    /\ peers = EmptyDict
    /\ workers = [w \in Workers |-> [pc |-> "called", loaded |-> 0, session_id |-> <<>>]]

\* Hello, "self.session_counter += 1", first half: the attribute is read.
HelloLoad(w) ==
    /\ workers[w].pc = "called"
    /\ workers' = [workers EXCEPT ![w].pc = "loaded", ![w].loaded = session_counter]
    /\ UNCHANGED <<session_counter, peers, notServiceVars>>

\* Hello, "self.session_counter += 1", second half: the sum is written back.
HelloStore(w) ==
    /\ workers[w].pc = "loaded"
    /\ session_counter' = workers[w].loaded + 1
    /\ workers' = [workers EXCEPT ![w].pc = "counted"]
    /\ UNCHANGED <<peers, notServiceVars>>

\* Hello: session_id = f"session-{self.session_counter}-{int(time.time())}"
HelloSessionId(w) ==
    /\ workers[w].pc = "counted"
    /\ workers' = [workers EXCEPT ![w].pc = "named",
                                  ![w].session_id = <<session_counter, time_ms \div 1000>>]
    /\ UNCHANGED <<session_counter, peers, notServiceVars>>

\* Hello: self.peers[session_id] = {...}, and the response is returned.
HelloReturn(w) ==
    /\ workers[w].pc = "named"
    /\ peers' = DictSet(peers, workers[w].session_id, [identity_cid |-> HelloIdentity(w)])
    /\ workers' = [workers EXCEPT ![w].pc = "returned"]
    /\ UNCHANGED <<session_counter, notServiceVars>>

\* time.time() moves on while the calls are handled.
ClockTick ==
    /\ time_ms <= MaxTime
    /\ time_ms' = time_ms + 1
    /\ UNCHANGED <<db, jsonl, stream, acks, notPeerVars>>

\* Thoughts core.query_thoughts returns under this limit in ExchangeBloom
\* and sync.
BloomLimit == 10000

\* WotPeerService.ExchangeBloom: the keys added to the filter of the
\* response, in the order of query_thoughts
ExchangeBloom ==
    /\ \E thoughts \in query_thoughts(db, BloomLimit) :
        stream' = [rpc |-> "ExchangeBloom",
                   payloads |-> [i \in 1..Len(thoughts) |->
                                    [thought |-> thoughts[i].cid,
                                     cid_bytes |-> bloom_cid_bytes(thoughts[i])]]]
    /\ UNCHANGED <<db, jsonl, time_ms, acks, notPeerVars>>

\* WotPeerClient.sync, run by a process on this store: the keys added to
\* the filter of the BloomRequest (our_cids)
ClientSync ==
    /\ \E thoughts \in query_thoughts(db, BloomLimit) :
        stream' = [rpc |-> "sync",
                   payloads |-> [i \in 1..Len(thoughts) |->
                                    [thought |-> thoughts[i].cid,
                                     cid_bytes |-> bloom_cid_bytes(thoughts[i])]]]
    /\ UNCHANGED <<db, jsonl, time_ms, acks, notPeerVars>>

\* WotPeerService.Want: the peer asks for CIDs, as bytes
Want ==
    /\ \E cids \in {<<<<"01711e20">> \o Tail(c)>> : c \in DOMAIN db} :
        stream' = [rpc |-> "Want",
                   payloads |-> Concat([i \in 1..Len(cids) |->
                        IF get_thought(db, WantKey(cids[i])) # <<>>
                        THEN <<thought_to_payload(get_thought(db, WantKey(cids[i])))>>
                        ELSE <<>>])]
    /\ UNCHANGED <<db, jsonl, time_ms, acks, notPeerVars>>

\* daemon.push_thoughts: WotPeerClient.push_thoughts(core.query_thoughts(limit))
ClientPush ==
    /\ \E thoughts \in query_thoughts(db, PushLimit) :
        stream' = [rpc |-> "Push",
                   payloads |-> [i \in 1..Len(thoughts) |-> thought_to_payload(thoughts[i])]]
    /\ UNCHANGED <<db, jsonl, time_ms, acks, notPeerVars>>

\* The hash dedupe_thoughts groups by: type and content only.
DedupeHash(t) == <<t.type, t.content>>

\* daemon.dedupe_thoughts: of every group the oldest stays (any of them on a
\* tie), the others are deleted from the table.
Dedupe ==
    /\ \E keep \in SUBSET (DOMAIN db) :
        /\ \A c \in DOMAIN db : \E k \in keep :
              /\ DedupeHash(db[k]) = DedupeHash(db[c])
              /\ db[k].created_at <= db[c].created_at
        /\ \A k1, k2 \in keep : DedupeHash(db[k1]) = DedupeHash(db[k2]) => k1 = k2
        /\ db' = [c \in keep |-> db[c]]
    /\ UNCHANGED <<jsonl, time_ms, stream, acks, notPeerVars>>

---------------------------------------------------------------------------
\* Part III.  Trust computation: wellspring_trust_network.py.

\* Scores.  A float is the pair <<n, e>> standing for n / 10^e, kept with the
\* smallest e; products and comparisons are exact.
RECURSIVE Norm(_, _)
Norm(n, e) ==
    IF n = 0 THEN <<0, 0>>
    ELSE IF e > 0 /\ n % 10 = 0 THEN Norm(n \div 10, e - 1)
    ELSE <<n, e>>

RECURSIVE Pow10(_)
Pow10(e) == IF e = 0 THEN 1 ELSE 10 * Pow10(e - 1)

\* a * b
Mul(a, b) == Norm(a[1] * b[1], a[2] + b[2])

\* a > b
Gt(a, b) == a[1] * Pow10(b[2]) > b[1] * Pow10(a[2])

\* The float of w tenths.
Tenths(w) == Norm(w, 1)

Zero == Tenths(0)

One == Tenths(10)

\* The identities of a trust graph.
TrustIds == {"O", "R", "T"}

\* Weights of attestations, in tenths.
TrustWeights == {-5, 1, 10}

\* TrustGraph.decay = 0.8, in tenths
TrustDecay == 8

\* compute_trust(max_hops=3)
max_hops == 3

\* The keys of a dict kept as a sequence of items [to, weight].
Keys(items) == {items[i].to : i \in 1..Len(items)}

\* d[to] of such a dict
WeightOf(items, to) == items[CHOOSE i \in 1..Len(items) : items[i].to = to].weight

\* d[to] = weight: a new key goes last, a known key keeps its place.
ItemsSet(items, to, weight) ==
    IF to \in Keys(items)
    THEN [i \in 1..Len(items) |-> IF items[i].to = to THEN [to |-> to, weight |-> weight]
                                  ELSE items[i]]
    ELSE Append(items, [to |-> to, weight |-> weight])

\* TrustGraph.add_trust
add_trust(graph, from_id, to_id, weight) ==
    [graph EXCEPT ![from_id] = ItemsSet(@, to_id, weight)]

RECURSIVE BfsItems(_, _, _, _)
\* The for loop of compute_trust over the items of the popped node.
BfsItems(items, target, popped, st) ==
    IF Len(items) = 0 THEN st
    ELSE LET next_id == Head(items).to
             new_trust == Mul(Mul(popped.trust, Tenths(Head(items).weight)), Tenths(TrustDecay))
             new_path == Append(popped.path, next_id)
             after ==
                 IF next_id \in st.visited THEN st
                 ELSE IF next_id = target
                 THEN IF Gt(new_trust, st.best_score)
                      THEN [st EXCEPT !.best_score = new_trust, !.best_path = new_path]
                      ELSE st
                 ELSE [st EXCEPT !.visited = @ \cup {next_id},
                                 !.queue = Append(@, [current |-> next_id, trust |-> new_trust,
                                                      path |-> new_path])]
         IN  BfsItems(Tail(items), target, popped, after)

RECURSIVE BfsLoop(_, _, _)
\* The while loop of compute_trust.
BfsLoop(graph, target, st) ==
    IF Len(st.queue) = 0 THEN st
    ELSE LET popped == Head(st.queue)
             rest == [st EXCEPT !.queue = Tail(@)]
         IN  IF Len(popped.path) > max_hops + 1 THEN BfsLoop(graph, target, rest)
             ELSE BfsLoop(graph, target, BfsItems(graph[popped.current], target, popped, rest))

\* TrustGraph.compute_trust of wellspring_trust_network.py
TrustGraph_compute_trust(graph, viewer, target) ==
    IF viewer = target THEN [score |-> One, path |-> <<viewer>>]
    ELSE IF target \in Keys(graph[viewer])
    THEN [score |-> Tenths(WeightOf(graph[viewer], target)), path |-> <<viewer, target>>]
    ELSE LET st == BfsLoop(graph, target,
                           [queue |-> <<[current |-> viewer, trust |-> One, path |-> <<viewer>>]>>,
                            visited |-> {viewer},
                            best_score |-> Zero,
                            best_path |-> <<>>])
         IN  [score |-> st.best_score, path |-> st.best_path]

\* Number of attestations recorded in a graph.
EdgeCount(graph) ==
    LET RECURSIVE Sum(_)
        Sum(S) == IF S = {} THEN 0
                  ELSE LET x == CHOOSE y \in S : TRUE IN Len(graph[x]) + Sum(S \ {x})
    IN  Sum(DOMAIN graph)

\* Identity.trust: one more attestation goes into the graph
AddTrust ==
    /\ EdgeCount(direct_trust) < MaxTrustEdges
    /\ \E from_id \in TrustIds, to_id \in TrustIds, weight \in TrustWeights :
        /\ from_id # to_id
        /\ direct_trust' = add_trust(direct_trust, from_id, to_id, weight)
    /\ UNCHANGED <<trust_result, notTrustVars>>

\* Identity.get_trust: compute_trust from a viewer's perspective
ComputeTrust ==
    /\ \E viewer \in TrustIds, target \in TrustIds :
        trust_result' = [viewer |-> viewer, target |-> target,
                         result |-> TrustGraph_compute_trust(direct_trust, viewer, target)]
    /\ UNCHANGED <<direct_trust, notTrustVars>>

TrustIdle ==
    /\ direct_trust = [id \in TrustIds |-> <<>>]
    /\ trust_result = <<>>

NextTrust ==
    \/ AddTrust
    \/ ComputeTrust

---------------------------------------------------------------------------
\* Part IV.  Trust with repeaters: wellspring_repeaters.py.

\* compute_trust(decay=0.8), in tenths
decay == 8

\* Recursion limit of compute_trust: depth > 10 gives 0.0
depth_limit == 10

\* domain=None
NoDomain == ""

\* The domains of queries and designations.
Domains == {"d", "x"}

\* TrustGraphWithRepeaters.add_edge: the edge goes in, the cache is cleared
add_edge(graph, from_cid, to_cid, weight) ==
    [graph EXCEPT !.edges[from_cid] = ItemsSet(@, to_cid, weight),
                  !.cache = EmptyDict]

\* TrustGraphWithRepeaters.designate_repeater
designate_repeater(graph, designator_cid, repeater_cid, domains) ==
    [graph EXCEPT !.repeaters[designator_cid] =
        IF \E i \in 1..Len(@) : @[i].repeater = repeater_cid
        THEN [i \in 1..Len(@) |-> IF @[i].repeater = repeater_cid
                                  THEN [repeater |-> repeater_cid, domains |-> domains]
                                  ELSE @[i]]
        ELSE Append(@, [repeater |-> repeater_cid, domains |-> domains])]

RECURSIVE Repeaters_compute_trust(_, _, _, _, _, _, _)
RECURSIVE RepeaterLoop(_, _, _, _, _)
RECURSIVE TransitiveLoop(_, _, _, _, _, _, _, _)

\* The loop of compute_trust over the repeaters of from_cid.  The result says
\* whether a repeater gave the answer, the answer, and the cache afterwards.
RepeaterLoop(graph, items, from_cid, to_cid, domain) ==
    IF Len(items) = 0 THEN [found |-> FALSE, score |-> Zero, cache |-> graph.cache]
    ELSE LET repeater_cid == Head(items).repeater
             domains == Head(items).domains
         IN  IF ~(domain = NoDomain \/ domain \in domains \/ "*" \in domains)
             THEN RepeaterLoop(graph, Tail(items), from_cid, to_cid, domain)
             ELSE \* my_trust_in_repeater
                  LET mine == Repeaters_compute_trust(graph, from_cid, repeater_cid,
                                                      FALSE, NoDomain, {}, 0)
                      g1 == [graph EXCEPT !.cache = mine.cache]
                  IN  IF ~Gt(mine.score, Zero)
                      THEN RepeaterLoop(g1, Tail(items), from_cid, to_cid, domain)
                      ELSE \* repeater_trust
                           LET theirs == Repeaters_compute_trust(g1, repeater_cid, to_cid,
                                                                 FALSE, NoDomain, {}, 0)
                               g2 == [graph EXCEPT !.cache = theirs.cache]
                           IN  IF ~Gt(theirs.score, Zero)
                               THEN RepeaterLoop(g2, Tail(items), from_cid, to_cid, domain)
                               ELSE [found |-> TRUE,
                                     score |-> Mul(mine.score, theirs.score),
                                     cache |-> theirs.cache]

\* The loop of compute_trust over the edges of from_cid: best_trust so far
\* and the cache afterwards.
TransitiveLoop(graph, items, to_cid, use_repeaters, domain, visited, depth, best_trust) ==
    IF Len(items) = 0 THEN [score |-> best_trust, cache |-> graph.cache]
    ELSE LET intermediate == Head(items).to
             weight == Head(items).weight
         IN  IF ~(weight > 0 /\ intermediate \notin visited)
             THEN TransitiveLoop(graph, Tail(items), to_cid, use_repeaters, domain, visited,
                                 depth, best_trust)
             ELSE LET transitive == Repeaters_compute_trust(graph, intermediate, to_cid,
                                                            use_repeaters, domain, visited,
                                                            depth + 1)
                      path_trust == Mul(Mul(Tenths(weight), transitive.score), Tenths(decay))
                  IN  TransitiveLoop([graph EXCEPT !.cache = transitive.cache], Tail(items),
                                     to_cid, use_repeaters, domain, visited, depth,
                                     IF Gt(path_trust, best_trust) THEN path_trust ELSE best_trust)

\* TrustGraphWithRepeaters.compute_trust: the score returned and self.cache
\* afterwards.  visited is the set passed in ({} for None).
Repeaters_compute_trust(graph, from_cid, to_cid, use_repeaters, domain, visited, depth) ==
    LET cache_key == <<from_cid, to_cid, use_repeaters>> IN
    IF from_cid = to_cid THEN [score |-> One, cache |-> graph.cache]
    ELSE IF cache_key \in DOMAIN graph.cache
    THEN [score |-> graph.cache[cache_key], cache |-> graph.cache]
    ELSE IF from_cid \in visited \/ depth > depth_limit
    THEN [score |-> Zero, cache |-> graph.cache]
    ELSE LET shortcut == IF use_repeaters
                         THEN RepeaterLoop(graph, graph.repeaters[from_cid], from_cid, to_cid, domain)
                         ELSE [found |-> FALSE, score |-> Zero, cache |-> graph.cache]
             g1 == [graph EXCEPT !.cache = shortcut.cache]
         IN  IF shortcut.found
             THEN [score |-> shortcut.score,
                   cache |-> DictSet(shortcut.cache, cache_key, shortcut.score)]
             ELSE IF Len(graph.edges[from_cid]) = 0
             THEN [score |-> Zero, cache |-> g1.cache]
             ELSE IF to_cid \in Keys(graph.edges[from_cid])
             THEN LET trust == Tenths(WeightOf(graph.edges[from_cid], to_cid))
                  IN  [score |-> trust, cache |-> DictSet(g1.cache, cache_key, trust)]
             ELSE LET best == TransitiveLoop(g1, graph.edges[from_cid], to_cid, use_repeaters,
                                             domain, visited \cup {from_cid}, depth, Zero)
                  IN  [score |-> best.score,
                       cache |-> DictSet(best.cache, cache_key, best.score)]

\* TrustGraphWithRepeaters.add_edge
AddEdge ==
    /\ EdgeCount(repeater_graph.edges) < MaxRepeaterEdges
    /\ \E from_cid \in TrustIds, to_cid \in TrustIds, weight \in TrustWeights :
        /\ from_cid # to_cid
        /\ repeater_graph' = add_edge(repeater_graph, from_cid, to_cid, weight)
    /\ UNCHANGED notRepeaterVars

\* TrustGraphWithRepeaters.designate_repeater: the observer names a repeater
DesignateRepeater ==
    /\ \E domains \in {{"d"}, {"*"}} :
        repeater_graph' = designate_repeater(repeater_graph, "O", "R", domains)
    /\ UNCHANGED notRepeaterVars

\* TrustGraphWithRepeaters.compute_trust called from outside
RepeatersComputeTrust ==
    /\ \E from_cid \in TrustIds, to_cid \in TrustIds, use_repeaters \in BOOLEAN,
          domain \in Domains \cup {NoDomain} :
        repeater_graph' =
            [repeater_graph EXCEPT !.cache =
                Repeaters_compute_trust(repeater_graph, from_cid, to_cid, use_repeaters,
                                        domain, {}, 0).cache]
    /\ UNCHANGED notRepeaterVars

\* TrustGraphWithRepeaters.add_edge for an attestation the observer or its
\* repeater made
AddEdgeOfObserver ==
    /\ EdgeCount(repeater_graph.edges) < MaxObserverEdges
    /\ \E from_cid \in {"O", "R"}, to_cid \in TrustIds, weight \in TrustWeights :
        /\ from_cid # to_cid
        /\ repeater_graph' = add_edge(repeater_graph, from_cid, to_cid, weight)
    /\ UNCHANGED notRepeaterVars

\* TrustGraphWithRepeaters.compute_trust called by the observer
ObserverComputeTrust ==
    /\ \E to_cid \in TrustIds, use_repeaters \in BOOLEAN, domain \in Domains \cup {NoDomain} :
        repeater_graph' =
            [repeater_graph EXCEPT !.cache =
                Repeaters_compute_trust(repeater_graph, "O", to_cid, use_repeaters,
                                        domain, {}, 0).cache]
    /\ UNCHANGED notRepeaterVars

\* The identities of a chain of attestations, first to last.
HopIds == <<"h0", "h1", "h2", "h3", "h4", "h5", "h6", "h7", "h8">>

\* The identity i edges down the chain.
Hop(i) == HopIds[i + 1]

\* TrustGraphWithRepeaters.add_edge for the attestations of a chain: each
\* identity attests the next one; the first may also attest the third, and
\* the third and the fifth may attest the first.
AddEdgeOfChain ==
    /\ \E i \in 0..(ChainLength - 1), j \in 0..ChainLength :
        /\ \/ j = i + 1
           \/ i = 0 /\ j = 2
           \/ i \in {2, 4} /\ j = 0
        /\ repeater_graph' = add_edge(repeater_graph, Hop(i), Hop(j), 10)
    /\ UNCHANGED notRepeaterVars

\* TrustGraphWithRepeaters.compute_trust from the first identity of the chain
\* to the last
ChainComputeTrust ==
    /\ \E use_repeaters \in BOOLEAN :
        repeater_graph' =
            [repeater_graph EXCEPT !.cache =
                Repeaters_compute_trust(repeater_graph, Hop(0), Hop(ChainLength), use_repeaters,
                                        NoDomain, {}, 0).cache]
    /\ UNCHANGED notRepeaterVars

\* The identities of main along "Nature <- Prof Climate <- Alice <- Bob <-
\* Carol <- Dave", and the author Nature publishes.
dave == Hop(0)

carol == Hop(1)

bob == Hop(2)

alice == Hop(3)

prof_climate == Hop(4)

nature == Hop(5)

dr_chen == Hop(6)

\* The graph.add_edge calls of main on that chain: from, to, weight in tenths.
ScenarioEdges ==
    {<<dave, carol, 6>>, <<carol, bob, 7>>, <<bob, alice, 8>>, <<alice, prof_climate, 9>>,
     <<prof_climate, nature, 10>>, <<nature, dr_chen, 10>>}

\* graph.add_edge of main, for an edge that is not in the graph yet
ScenarioAddEdge ==
    /\ \E e \in ScenarioEdges :
        /\ e[2] \notin Keys(repeater_graph.edges[e[1]])
        /\ repeater_graph' = add_edge(repeater_graph, e[1], e[2], e[3])
    /\ UNCHANGED notRepeaterVars

\* graph.designate_repeater(user.cid, prof_climate.cid, ["climate",
\* "environment"]) of main, for the user Dave
ScenarioDesignate ==
    /\ repeater_graph' = designate_repeater(repeater_graph, dave, prof_climate,
                                            {"climate", "environment"})
    /\ UNCHANGED notRepeaterVars

\* graph.compute_trust(dave.cid, dr_chen.cid, use_repeaters, domain="climate")
ScenarioComputeTrust ==
    /\ \E use_repeaters \in BOOLEAN :
        repeater_graph' =
            [repeater_graph EXCEPT !.cache =
                Repeaters_compute_trust(repeater_graph, dave, dr_chen, use_repeaters,
                                        "climate", {}, 0).cache]
    /\ UNCHANGED notRepeaterVars

\* TrustGraphWithRepeaters.__init__: no edges, no repeaters, nothing cached,
\* for every identity there is.
RepeatersIdle ==
    repeater_graph = [edges |-> [id \in TrustIds \cup Range(HopIds) |-> <<>>],
                      repeaters |-> [id \in TrustIds \cup Range(HopIds) |-> <<>>],
                      cache |-> EmptyDict]

NextRepeaters ==
    \/ AddEdge
    \/ DesignateRepeater
    \/ RepeatersComputeTrust

---------------------------------------------------------------------------
\* Part V.  Pools and the waterline (thread-3/pool.py, WotPeerService.Query,
\* the --waterline command of daemon.py).  A waterline and a relevance are
\* counted in tenths.  Every process has its own module-level _pools; the
\* model keeps the one of the serving process, and a command starts with an
\* empty one and loses it when it exits.

\* The waterlines the --waterline command is given.
Waterlines == {3, 5, 8}

\* The relevance scores RAG.retrieve hands back.
Relevances == {2, 4, 6, 9}

\* pool.filter_by_waterline: the default_waterline parameter
default_waterline == 3

\* pool.DEFAULT_POOL_CID is never a key of _pools; the CID of the pool
\* thought that get_default_pool creates stands for its digest.
WotPoolCid == "pool:wot"

NoPool == ""

\* pool.create_pool: the pool thought is stored with asdict(rules), and the
\* Pool object goes into the _pools of the calling process.
create_pool(pools, thoughts, name, waterline) ==
    LET pool == [cid |-> WotPoolCid, name |-> name, rules |-> [waterline |-> waterline]]
    IN  [pool |-> pool,
         _pools |-> {pool} \cup {p \in pools : p.cid # pool.cid},
         thoughts |-> [thoughts EXCEPT !.pool = Append(@, pool)]]

\* pool.get_pool: the cache first, then the pool thought and the rules in
\* its content; pool_config thoughts are not read.
get_pool(pools, thoughts, cid) ==
    IF \E p \in pools : p.cid = cid
    THEN [found |-> TRUE, pool |-> CHOOSE p \in pools : p.cid = cid, _pools |-> pools]
    ELSE IF \E i \in 1..Len(thoughts.pool) : thoughts.pool[i].cid = cid
         THEN LET pool == thoughts.pool[CHOOSE i \in 1..Len(thoughts.pool) :
                                           thoughts.pool[i].cid = cid]
              IN  [found |-> TRUE, pool |-> pool, _pools |-> pools \cup {pool}]
         ELSE [found |-> FALSE, pool |-> [cid |-> NoPool], _pools |-> pools]

\* pool.get_default_pool, called by a process whose _pools is empty or holds
\* what get_pool put there: the stored pool named "wot", else a new one with
\* waterline 0.3.
get_default_pool(pools, thoughts) ==
    IF thoughts.pool # <<>>
    THEN LET got == get_pool(pools, thoughts, thoughts.pool[Len(thoughts.pool)].cid)
         IN  [pool |-> got.pool, _pools |-> got._pools, thoughts |-> thoughts]
    ELSE create_pool(pools, thoughts, "wot", 3)

\* get_latest_config that finds no earlier config.
get_latest_config_none(thoughts, pool_cid) == 0

\* pool.get_latest_config: the first of query_thoughts("pool_config"), which
\* orders by created_at DESC; 0 stands for None, i for the i-th config stored.
get_latest_config(thoughts, pool_cid) ==
    LET mine == {i \in 1..Len(thoughts.pool_config) :
                   thoughts.pool_config[i].pool = pool_cid}
    IN  IF mine = {} THEN 0 ELSE CHOOSE i \in mine : \A j \in mine : j <= i

\* The CIDs of the pool_config thoughts, in the order they are stored.
ConfigCids == <<"config:1", "config:2", "config:3", "config:4">>

\* pool.update_waterline: a pool_config thought chained to the previous one
\* is stored, and the Pool object of this process is given the new waterline.
\* The stored record holds the CID and the because of the thought next to the
\* keys of its content; previous_config is the place of the previous config
\* in the store (0 for None).
update_waterline(pools, thoughts, pool_cid, waterline) ==
    LET got == get_pool(pools, thoughts, pool_cid)
        previous_config == get_latest_config(thoughts, pool_cid)
        content == [cid |-> ConfigCids[Len(thoughts.pool_config) + 1],
                    because |-> <<pool_cid>> \o (IF previous_config # 0
                                                 THEN <<thoughts.pool_config[previous_config].cid>>
                                                 ELSE <<>>),
                    pool |-> pool_cid,
                    waterline |-> waterline,
                    previous_waterline |-> got.pool.rules.waterline,
                    previous_config |-> previous_config]
        pool == [got.pool EXCEPT !.rules.waterline = waterline]
    IN  IF ~got.found
        THEN [ok |-> FALSE, _pools |-> got._pools, thoughts |-> thoughts]
        ELSE [ok |-> TRUE,
              _pools |-> {pool} \cup {p \in got._pools : p.cid # pool_cid},
              thoughts |-> [thoughts EXCEPT !.pool_config = Append(@, content)]]

\* pool.filter_by_waterline: results at or above the waterline of the pool as
\* this process knows it, or above default_waterline without a pool.
filter_by_waterline(pools, thoughts, results, pool_cid) ==
    LET got == get_pool(pools, thoughts, pool_cid)
        waterline == IF pool_cid # NoPool /\ got.found
                     THEN got.pool.rules.waterline
                     ELSE default_waterline
        keep(r) == r >= waterline
    IN  [results |-> SelectSeq(results, keep),
         _pools |-> IF pool_cid # NoPool THEN got._pools ELSE pools]

\* What RAG.retrieve can hand back: scores in descending order.
Retrieved ==
    {s \in UNION {[1..n -> Relevances] : n \in 0..MaxResults} :
        \A i \in 1..Len(s) - 1 : s[i] >= s[i + 1]}

\* daemon.main, "--waterline w": a fresh process gets the default pool and
\* calls set_waterline, which calls pool.update_waterline, and exits.
SetWaterline ==
    /\ Len(pool_thoughts.pool_config) < MaxConfigs
    /\ \E waterline \in Waterlines :
         LET pool == get_default_pool({}, pool_thoughts)
             out == update_waterline(pool._pools, pool.thoughts, pool.pool.cid, waterline)
         IN  pool_thoughts' = out.thoughts
    /\ UNCHANGED <<_pools, query_response, notPoolVars>>

\* WotPeerService.Query in the serving process, which daemon.run_server
\* constructs without a pool_cid: the request names the pool or leaves it out.
Query ==
    \E request_pool_cid \in {NoPool, WotPoolCid}, top_k \in 0..MaxResults,
       results \in Retrieved :
        LET pool_cid == IF request_pool_cid # NoPool THEN request_pool_cid ELSE NoPool
            limit == IF top_k # 0 THEN top_k ELSE 10
            out == filter_by_waterline(_pools, pool_thoughts, results, pool_cid)
        IN  /\ Len(results) <= limit * 3
            /\ _pools' = out._pools
            /\ query_response' = [pool_cid |-> pool_cid,
                                  results |-> SubSeq(out.results, 1,
                                      IF Len(out.results) < limit
                                      THEN Len(out.results) ELSE limit)]
            /\ UNCHANGED <<pool_thoughts, notPoolVars>>

\* An empty store, a serving process that has loaded no pool, no query yet.
PoolIdle ==
    /\ pool_thoughts = [pool |-> <<>>, pool_config |-> <<>>]
    /\ _pools = {}
    /\ query_response = [pool_cid |-> NoPool, results |-> <<>>]

NextPool ==
    \/ SetWaterline
    \/ Query

---------------------------------------------------------------------------
\* Part VI.  Appetite (wellspring_appetite.py): class AppetiteEngine and the
\* scenarios of run_simulation.  A trust weight is counted in tenths and an
\* hour lasts HourTicks ticks of datetime.now().  The limits are read from
\* thoughts, so small ones are configured; an expectation expires a week
\* after it is made, which is later than the clock runs.

Senders == {"bob", "spammer"}

Channels == {"email:carol@example.com", "public_pool"}

\* AppetiteEngine.get_limits without an appetite aspect
DefaultLimits ==
    [unknown_rate |-> 5, trusted_rate |-> 100, expectation_boost |-> 10,
     attack_mode |-> FALSE, attack_threshold |-> 50]

\* appetite_v1 of run_simulation, with smaller numbers.
NormalLimits ==
    [unknown_rate |-> 1, trusted_rate |-> 3, expectation_boost |-> 2,
     attack_mode |-> FALSE, attack_threshold |-> 2]

\* attack_mode_thought of run_simulation, with smaller numbers.
AttackLimits ==
    [unknown_rate |-> 0, trusted_rate |-> 3, expectation_boost |-> 1,
     attack_mode |-> TRUE, attack_threshold |-> 2]

\* The thoughts run_simulation hands to AppetiteEngine.add_thought.
ConfigThoughts ==
    {[type |-> "aspect", content |-> [aspect_type |-> "appetite", limits |-> l]] :
        l \in {NormalLimits, AttackLimits}}
    \cup {[type |-> "expectation",
           content |-> [expecting_name |-> "Carol",
                        expecting_channel |-> "email:carol@example.com"]]}
    \cup {[type |-> "attestation",
           content |-> [aspect_type |-> "trust", on |-> "bob", weight |-> 10]]}

\* AppetiteEngine.add_thought: the appetite, expectations and trust_scores
\* indexes (self.thoughts is never read).
add_thought(e, thought) ==
    IF thought.type = "aspect" /\ thought.content.aspect_type = "appetite"
    THEN [e EXCEPT !.appetite = <<thought>>]
    ELSE IF thought.type = "expectation"
    THEN [e EXCEPT !.expectations = @ \cup {thought.content.expecting_channel}]
    ELSE IF thought.type = "attestation" /\ thought.content.aspect_type = "trust"
    THEN [e EXCEPT !.trust_scores = DictSet(@, thought.content.on, thought.content.weight)]
    ELSE e

\* AppetiteEngine.get_limits
get_limits(e) ==
    IF e.appetite = <<>> THEN DefaultLimits ELSE e.appetite[1].content.limits

\* A count_recent whose window is empty.
count_recent_empty_window(message_log, sender_id, now) ==
    Cardinality({i \in 1..Len(message_log) :
                    message_log[i][1] = sender_id /\ message_log[i][2] > now})

\* AppetiteEngine.count_recent: logged messages of the sender after the cutoff
count_recent(message_log, sender_id, now) ==
    Cardinality({i \in 1..Len(message_log) :
                    message_log[i][1] = sender_id /\ message_log[i][2] > now - HourTicks})

\* AppetiteEngine.count_total_recent
count_total_recent(message_log, now) ==
    Cardinality({i \in 1..Len(message_log) : message_log[i][2] > now - HourTicks})

\* AppetiteEngine.evaluate, lines 167-178: the rate limit of the category the
\* sender of msg falls in.
rate_limit(e, msg) ==
    LET limits == get_limits(e)
    IN  IF DictGet(e.trust_scores, msg.sender_id, 0) >= 8 THEN limits.trusted_rate
        ELSE IF msg.channel \in e.expectations
        THEN limits.unknown_rate * limits.expectation_boost
        ELSE limits.unknown_rate

\* AppetiteEngine.evaluate at clock value now: the engine afterwards and the
\* result returned.
evaluate(e, msg, now) ==
    LET limits == get_limits(e)
        trust == DictGet(e.trust_scores, msg.sender_id, 0)
        expectation == msg.channel \in e.expectations
        recent_from_sender == count_recent(e.message_log, msg.sender_id, now)
        total_recent == count_total_recent(e.message_log, now)
        attack_mode == limits.attack_mode \/ total_recent > limits.attack_threshold
        unknown == ~(trust >= 8) /\ ~expectation
    IN  IF attack_mode /\ trust = 0 /\ ~expectation
        THEN [engine |-> e, result |-> "rejected"]
        ELSE IF recent_from_sender >= rate_limit(e, msg)
        THEN [engine |-> e, result |-> IF unknown THEN "rejected" ELSE "rate_limited"]
        ELSE [engine |-> [e EXCEPT !.message_log = Append(@, <<msg.sender_id, msg.timestamp>>)],
              result |-> "allowed"]

RECURSIVE EvaluateLoop(_, _, _, _)
\* A loop of run_simulation that has evaluate judge n messages like msg: the
\* engine afterwards and the results in order.
EvaluateLoop(e, msg, now, n) ==
    IF n = 0 THEN [engine |-> e, results |-> <<>>]
    ELSE LET first == evaluate(e, msg, now)
             rest == EvaluateLoop(first.engine, msg, now, n - 1)
         IN  [engine |-> rest.engine, results |-> <<first.result>> \o rest.results]

\* What the evaluations of one step add to the record of evaluations.
Evaluated(msg, results) ==
    [i \in 1..Len(results) |->
        [sender_id |-> msg.sender_id, channel |-> msg.channel,
         timestamp |-> msg.timestamp, result |-> results[i]]]

\* IncomingMessage: the timestamp defaults to datetime.now().
IncomingMessages ==
    {[sender_id |-> s, channel |-> c, timestamp |-> datetime_now] :
        s \in Senders, c \in Channels}

\* run_simulation: engine.add_thought(...) of the scenarios
AddThought ==
    /\ \E thought \in ConfigThoughts : engine' = add_thought(engine, thought)
    /\ UNCHANGED <<datetime_now, evaluated, notAppetiteVars>>

\* run_simulation, scenarios 2, 3 and 5: a message arrives and is evaluated
Evaluate ==
    /\ Len(evaluated) < MaxMessages
    /\ \E msg \in IncomingMessages :
        LET out == evaluate(engine, msg, datetime_now)
        IN  /\ engine' = out.engine
            /\ evaluated' = evaluated \o Evaluated(msg, <<out.result>>)
    /\ UNCHANGED <<datetime_now, notAppetiteVars>>

\* run_simulation, scenario 4: a sender floods, then the total of the hour is
\* compared with the threshold and attack_mode_thought is added.
Flood ==
    /\ \E msg \in IncomingMessages, n \in 2..MaxMessages :
        LET out == EvaluateLoop(engine, msg, datetime_now, n)
            total == count_total_recent(out.engine.message_log, datetime_now)
            attack_mode_thought ==
                [type |-> "aspect",
                 content |-> [aspect_type |-> "appetite", limits |-> AttackLimits]]
        IN  /\ Len(evaluated) + n <= MaxMessages
            /\ engine' = IF total >= NormalLimits.attack_threshold
                         THEN add_thought(out.engine, attack_mode_thought)
                         ELSE out.engine
            /\ evaluated' = evaluated \o Evaluated(msg, out.results)
    /\ UNCHANGED <<datetime_now, notAppetiteVars>>

\* engine.add_thought of a trust attestation of weight 0.5 on the sender
\* that run_simulation leaves without trust
AddPartialTrust ==
    /\ engine' = add_thought(engine,
                             [type |-> "attestation",
                              content |-> [aspect_type |-> "trust", on |-> "spammer",
                                           weight |-> 5]])
    /\ UNCHANGED <<datetime_now, evaluated, notAppetiteVars>>

\* Time passes between two messages.
Tick ==
    /\ datetime_now < MaxClock
    /\ datetime_now' = datetime_now + 1
    /\ UNCHANGED <<engine, evaluated, notAppetiteVars>>

\* AppetiteEngine.__init__, and nothing evaluated yet
AppetiteIdle ==
    /\ engine = [appetite |-> <<>>, expectations |-> {}, trust_scores |-> EmptyDict,
                 message_log |-> <<>>]
    /\ datetime_now = 0
    /\ evaluated = <<>>

NextAppetite ==
    \/ AddThought
    \/ Evaluate
    \/ Flood
    \/ Tick

\* An engine that is configured, also with partial trust, while messages
\* arrive within one hour.
NextAttack ==
    \/ AddThought
    \/ AddPartialTrust
    \/ Evaluate

NextPeer ==
    \/ LocalStore
    \/ Push
    \/ Want
    \/ ClientPush
    \/ Dedupe

---------------------------------------------------------------------------
\* Specifications.

NodesIdle ==
    /\ node = [n \in Nodes |-> NewNode(n)]
    /\ utcnow = 1
    /\ wire = NoTransfer

PeerIdle ==
    /\ db = EmptyDict
    /\ jsonl = <<>>
    /\ time_ms = 1
    /\ stream = NoStream
    /\ acks = <<>>

\* The vector db before anything is indexed.
RagIdle == embedding_metadata = EmptyDict

Init ==
    /\ NodesIdle
    /\ PeerIdle
    /\ RagIdle
    /\ ServiceIdle
    /\ TrustIdle
    /\ RepeatersIdle
    /\ PoolIdle
    /\ AppetiteIdle

\* The nodes driven as wellspring_visibility_test.py drives them.
Next ==
    \/ \E n \in Nodes : CreateThought(n)
    \/ \E n \in Nodes : CreatePool(n)
    \/ \E n \in Nodes : AddPoolMember(n)
    \/ \E n \in Nodes : Peering(n, DriverIdentities(n))
    \/ \E n \in Nodes : Sync(n)
    \/ \E n \in Nodes : Receive(n)

Spec == Init /\ [][Next]_vars

\* A node whose /peering and /receive are called by an outsider.
NextOpen ==
    \/ CreateThought(OutsiderPeer)
    \/ Peering(OutsiderPeer, OpenIdentities)
    \/ ReceiveFromOutsider(OutsiderPeer)

SpecOpen == Init /\ [][NextOpen]_vars

\* One node that writes thoughts of its own while an outside caller registers
\* and posts batches of what it has signed.
NextBatch ==
    \/ CreateThought(OutsiderPeer)
    \/ Peering(OutsiderPeer, {IdentityThought(m) : m \in {Outsider}})
    \/ ReceiveOwnBatch(OutsiderPeer)

SpecBatch == Init /\ [][NextBatch]_vars

\* A daemon that stores thoughts of its own and is pushed thoughts, and whose
\* process may be killed during a put.
NextCrash ==
    \/ LocalStore
    \/ LocalStoreInterrupted
    \/ Push

SpecCrash == Init /\ [][NextCrash]_vars

\* A daemon that stores thoughts of its own and is pushed the thoughts its
\* peer created.
NextRoundTrip ==
    \/ LocalStore
    \/ PushCreated

SpecRoundTrip == Init /\ [][NextRoundTrip]_vars

\* A peer service that is sent Hello calls at the same time, one to each
\* thread of the pool.
NextHello ==
    \/ \E w \in Workers : HelloLoad(w)
    \/ \E w \in Workers : HelloStore(w)
    \/ \E w \in Workers : HelloSessionId(w)
    \/ \E w \in Workers : HelloReturn(w)
    \/ ClockTick

SpecHello == Init /\ [][NextHello]_vars

\* A daemon that stores thoughts of its own and is pushed thoughts, and is
\* asked for its bloom filter; a client on its store syncs.
NextBloom ==
    \/ LocalStore
    \/ PushCreated
    \/ ExchangeBloom
    \/ ClientSync

SpecBloom == Init /\ [][NextBloom]_vars

\* A daemon with the RAG that stores thoughts of its own and is pushed
\* thoughts for its pool.
NextIngest ==
    \/ LocalStore
    \/ PushIndexed
    \/ Want

SpecIngest == Init /\ [][NextIngest]_vars

\* An index that is pushed thoughts and whose rows are given appetite notes,
\* trust weights and chain depths.
NextRag ==
    \/ PushIndexed
    \/ SetAppetite
    \/ SetTrustWeight
    \/ SetChainDepth

SpecRag == Init /\ [][NextRag]_vars

\* The thread-3 daemon: store, peer service and maintenance commands.
SpecPeer == Init /\ [][NextPeer]_vars

\* Two nodes that write direct messages and notes of odd visibility, peer
\* and sync.
NextVisibility ==
    \/ \E n \in Nodes : PostThought(n, DirectMessageRequests(n))
    \/ \E n \in Nodes : PostThought(n, OddVisibilityRequests)
    \/ \E n \in Nodes : Peering(n, DriverIdentities(n))
    \/ \E n \in Nodes : Sync(n)
    \/ \E n \in Nodes : Receive(n)

SpecVisibility == Init /\ [][NextVisibility]_vars

\* The owner of a pool who admits a device and revokes it, and the device.
NextRevoke ==
    \/ CreatePool(Owner)
    \/ Peering(Owner, DriverIdentities(Owner))
    \/ Attest(Owner)
    \/ DevicePost(Owner)

SpecRevoke == Init /\ [][NextRevoke]_vars

\* A trust graph that attestations are added to and trust is asked of.
SpecTrust == Init /\ [][NextTrust]_vars

\* A trust graph with repeaters: edges, designations and trust queries.
SpecRepeaters == Init /\ [][NextRepeaters]_vars

\* An observer that attests, designates a repeater and asks for trust.
NextObserver ==
    \/ AddEdgeOfObserver
    \/ DesignateRepeater
    \/ ObserverComputeTrust

SpecObserver == Init /\ [][NextObserver]_vars

\* A chain of attestations, with short cuts and cycles, and the trust of its
\* first identity in its last.
\* The demonstration of wellspring_repeaters.main on the chain from Dave to
\* Dr. Chen.
NextScenario ==
    \/ ScenarioAddEdge
    \/ ScenarioDesignate
    \/ ScenarioComputeTrust

SpecScenario == Init /\ [][NextScenario]_vars

NextChain ==
    \/ AddEdgeOfChain
    \/ ChainComputeTrust

SpecChain == Init /\ [][NextChain]_vars

\* A pool whose waterline is set from the command line while a peer serves queries.
SpecPool == Init /\ [][NextPool]_vars

\* An appetite engine that is configured while messages arrive.
SpecAppetite == Init /\ [][NextAppetite]_vars

SpecAttack == Init /\ [][NextAttack]_vars

---------------------------------------------------------------------------
\* Properties.

\* The public key an identity CID of the thread-3 store stands for.
PeerPubkey(identity_cid) ==
    IF identity_cid = IdentityCid(Daemon) THEN PeerKey[Daemon] ELSE PeerKey[Remote]

\* The identity thought with CID identity_cid, <<>> when there is none.
IdentityWithCid(identity_cid) ==
    IF \E name \in Names : CidOf(name) = identity_cid
    THEN IdentityThought(CHOOSE name \in Names : CidOf(name) = identity_cid)
    ELSE <<>>

\* The node whose identity CID is cid.
NodeWithCid(cid) == CHOOSE n \in Nodes : node[n].cid = cid

\* C1: no transfer to a peer contains a thought whose visibility is
\* local_forever: not the list sync selection returned, not the payloads of
\* a Want or Push stream.
C1_NoLocalForeverTransferred ==
    /\ \A i \in 1..Len(wire.thoughts) : wire.thoughts[i].visibility # LocalForever
    /\ \A i \in 1..Len(stream.payloads) :
          stream.payloads[i].thought_proto.visibility # LocalForever

\* C2: whenever a node puts a thought of visibility pool:<cid> into a transfer
\* to peer P, P is in the node's membership set for <cid> or the node's peering
\* agreement with P names <cid>.  The thread-3 daemon keeps neither rosters nor
\* agreements, so there no peer qualifies.
C2_PoolTransfersAuthorised ==
    [][/\ wire' # wire =>
            \A i \in 1..Len(wire'.thoughts) :
                LET t == wire'.thoughts[i]
                    ns == node[NodeWithCid(wire'.from)]
                IN  IsPoolVisibility(t.visibility) =>
                        \/ is_pool_member(ns, PoolOfVisibility(t.visibility), wire'.to)
                        \/ PoolOfVisibility(t.visibility) \in get_shared_pools(ns, wire'.to)
       /\ stream' # stream =>
            \A i \in 1..Len(stream'.payloads) :
                ~IsPoolVisibility(stream'.payloads[i].thought_proto.visibility)]_vars

\* C3: no thought with an invalid signature is in a store: every row of the
\* thread-3 table and every thought of a node carries a signature of its
\* creator's key over what that store signs.
C3_StoredSignaturesVerify ==
    /\ \A cid \in DOMAIN db : verify_signature(db[cid], PeerPubkey(db[cid].created_by))
    /\ \A n \in Nodes : \A i \in 1..Len(node[n].thoughts) :
          LET t == node[n].thoughts[i] IN
          \E name \in Names :
              /\ t.created_by \in {CidOf(name), GENESIS}
              /\ Ed25519Verify(KeyOf[name], t.signature, SignDataOf(t))

\* C4: every thought stored at a node whose created_by is the CID of an
\* identity thought is signed with the public key that identity thought declares.
C4_SignedByDeclaredKey ==
    \A n \in Nodes : \A i \in 1..Len(node[n].thoughts) :
        LET t == node[n].thoughts[i]
            identity == IdentityWithCid(t.created_by)
        IN  identity # <<>> => Ed25519Verify(identity.content.pubkey, t.signature, SignDataOf(t))

\* C5: a thought is stored only under the CID recomputed from its own fields.
C5_StoredUnderRecomputedCid ==
    /\ \A cid \in DOMAIN db : cid = core_compute_cid(SignableOf(db[cid]))
    /\ \A n \in Nodes : \A i \in 1..Len(node[n].thoughts) :
          node[n].thoughts[i].cid = RecomputedCid(node[n].thoughts[i])

\* C6: a second put of a thought changes nothing: the table holds it once and
\* the log has no second line for it.
C6_PutTwiceIsPutOnce ==
    \A i, j \in 1..Len(jsonl) : jsonl[i] = jsonl[j] => i = j

\* C7: no step replaces or removes a stored record: what is stored under a CID
\* stays stored under it, unchanged.
C7_RecordsNeverReplacedOrRemoved ==
    [][/\ \A cid \in DOMAIN db : cid \in DOMAIN db' /\ db'[cid] = db[cid]
       /\ \A n \in Nodes : \A cid \in Cids(node[n]) :
             cid \in Cids(node'[n]) /\ ThoughtAt(node'[n], cid) = ThoughtAt(node[n], cid)]_vars

\* C9: in the list sync selection returned, the identity thought of a thought's
\* creator, when it is in the list too, stands before the thought.
C9_IdentityPrecedesDependants ==
    \A i, j \in 1..Len(wire.thoughts) :
        wire.thoughts[j].cid = wire.thoughts[i].created_by => j < i

\* C10: for every thought stored at a node whose created_by is not GENESIS, the
\* identity thought with that CID is stored at the node, and was stored first.
C10_IdentityStoredBeforeDependants ==
    \A n \in Nodes : \A i \in 1..Len(node[n].thoughts) :
        node[n].thoughts[i].created_by # GENESIS =>
            \E j \in 1..(i - 1) : node[n].thoughts[j].cid = node[n].thoughts[i].created_by

\* C11: ingest is idempotent: delivering to receive_thoughts a batch, or any
\* part of it, that was already delivered stores no further thought, creates no
\* further received_via thought and reports new = 0.
C11_IngestIdempotent ==
    \A batch \in OutsiderBatches :
        \E r1 \in {receive_thoughts(node[OutsiderPeer], utcnow, batch, CidOf(Outsider))} :
            \A i, j \in 1..Len(batch) :
                \E r2 \in {receive_thoughts(r1.ns, r1.now, SubSeq(batch, i, j), CidOf(Outsider))} :
                    /\ r2.ns = r1.ns
                    /\ r2.new = 0

\* A batch was delivered and accepted, and a second delivery of it reports new = 0.
C11_Redelivered ==
    /\ OutsiderNote.cid \in DOMAIN node[OutsiderPeer].received_via
    /\ receive_thoughts(node[OutsiderPeer], utcnow,
                        <<IdentityThought(Outsider), OutsiderNote>>, CidOf(Outsider)).new = 0

\* The node holds a received_via connection thought naming peer_cid for thought_cid.
HasProvenance(ns, thought_cid, peer_cid) ==
    \E i \in 1..Len(ns.thoughts) :
        LET t == ns.thoughts[i] IN
        /\ t.type = "connection"
        /\ t.visibility = LocalForever
        /\ DictGet(t.content, "connection_type", "") = "received_via"
        /\ DictGet(t.content, "thought", <<>>) = thought_cid
        /\ DictGet(t.content, "via", <<>>) = peer_cid

\* C12: a node comes to hold a received_via record naming peer P for thought T
\* exactly in the step in which a sync delivery from P newly stores T; a record
\* once held stays, and a thought the node created itself never has one.
C12_ProvenanceIffReceived ==
    [][\A n \in Nodes :
          /\ \A m \in Nodes : \A T \in Cids(node[n]) \cup Cids(node'[n]) :
                /\ HasProvenance(node[n], T, node[m].cid) => HasProvenance(node'[n], T, node[m].cid)
                /\ (HasProvenance(node'[n], T, node[m].cid) /\ ~HasProvenance(node[n], T, node[m].cid))
                      <=> /\ wire.to = node[n].cid
                          /\ wire.from = node[m].cid
                          /\ wire' # wire
                          /\ T \notin Cids(node[n])
                          /\ T \in Cids(node'[n])
                          /\ T \in {wire.thoughts[i].cid : i \in 1..Len(wire.thoughts)}
          /\ \A T \in Cids(node'[n]) :
                (T = node[n].cid \/ ThoughtAt(node'[n], T).created_by = node[n].cid)
                    => \A m \in Nodes : ~HasProvenance(node'[n], T, node[m].cid)]_vars

\* Node B holds a record naming A for a note that A created.
C12_RecordHeld ==
    \E i \in 1..Len(node["B"].thoughts) :
        LET t == node["B"].thoughts[i] IN
        /\ t.type = "note"
        /\ t.created_by = CidOf("A")
        /\ HasProvenance(node["B"], t.cid, CidOf("A"))

\* trust(O, T) of the trust network on a graph.
TrustScore(graph, O, T) == TrustGraph_compute_trust(graph, O, T).score

\* C13: adding an edge with weight w > 0 to a trust graph never makes
\* trust(O, T) smaller than it was before, for any observer O and target T.
C13_PositiveEdgeNeverLowers ==
    [][\A from_id, to_id \in TrustIds :
          (/\ to_id \notin Keys(direct_trust[from_id])
           /\ to_id \in Keys(direct_trust'[from_id])
           /\ WeightOf(direct_trust'[from_id], to_id) > 0)
          => \A O, T \in TrustIds :
                ~Gt(TrustScore(direct_trust, O, T), TrustScore(direct_trust', O, T))]_vars

\* C14: adding an edge with negative weight to a trust graph never makes
\* trust(O, T) larger than it was before, for any observer O and target T.
C14_NegativeEdgeNeverRaises ==
    [][\A from_id, to_id \in TrustIds :
          (/\ to_id \notin Keys(direct_trust[from_id])
           /\ to_id \in Keys(direct_trust'[from_id])
           /\ WeightOf(direct_trust'[from_id], to_id) < 0)
          => \A O, T \in TrustIds :
                ~Gt(TrustScore(direct_trust', O, T), TrustScore(direct_trust, O, T))]_vars

\* What compute_trust returns for a query made now.
RepeaterScore(graph, from_cid, to_cid, use_repeaters, domain) ==
    Repeaters_compute_trust(graph, from_cid, to_cid, use_repeaters, domain, {}, 0).score

\* The graph with an empty memo table.
Uncached(graph) == [graph EXCEPT !.cache = EmptyDict]

\* C15: for every repeater R the observer designated for domain d and every
\* target T, the trust computed with repeaters for a query in domain d is at
\* least trust(O, R) x trust(R, T), both computed without repeaters.  Stated
\* for the case in which both factors are positive.
C15_RepeaterLowerBound ==
    \A i \in 1..Len(repeater_graph.repeaters["O"]) : \A d \in Domains : \A T \in TrustIds :
        LET R == repeater_graph.repeaters["O"][i].repeater
            domains == repeater_graph.repeaters["O"][i].domains
            toR == RepeaterScore(Uncached(repeater_graph), "O", R, FALSE, NoDomain)
            fromR == RepeaterScore(Uncached(repeater_graph), R, T, FALSE, NoDomain)
        IN  (/\ d \in domains \/ "*" \in domains
             /\ Gt(toR, Zero)
             /\ Gt(fromR, Zero))
            => ~Gt(Mul(toR, fromR), RepeaterScore(repeater_graph, "O", T, TRUE, d))

\* C16: compute_trust returns the score that the same call returns on the
\* current graph with an empty memo table.
C16_CacheNeverStale ==
    \A from_cid, to_cid \in TrustIds : \A use_repeaters \in BOOLEAN :
        \A domain \in Domains \cup {NoDomain} :
            RepeaterScore(repeater_graph, from_cid, to_cid, use_repeaters, domain)
                = RepeaterScore(Uncached(repeater_graph), from_cid, to_cid, use_repeaters, domain)

\* C25: where the graph holds a direct edge from O to T of weight w, O other
\* than T, the transitive trust of O in T is w: in the trust network, and in
\* the graph with repeaters for every query.
C25_DirectEdgeIsTheScore ==
    \A O, T \in TrustIds :
        /\ (O # T /\ T \in Keys(direct_trust[O]))
           => TrustScore(direct_trust, O, T) = Tenths(WeightOf(direct_trust[O], T))
        /\ (O # T /\ T \in Keys(repeater_graph.edges[O]))
           => \A use_repeaters \in BOOLEAN : \A domain \in Domains \cup {NoDomain} :
                 RepeaterScore(repeater_graph, O, T, use_repeaters, domain)
                     = Tenths(WeightOf(repeater_graph.edges[O], T))

\* C26: where the observer has designated no repeater whose domains match
\* the domain of the query, compute_trust with repeaters enabled returns what
\* it returns with repeaters disabled, whatever was computed before.
C26_NoRepeaterNoDifference ==
    \A T \in TrustIds : \A domain \in Domains \cup {NoDomain} :
        (\A i \in 1..Len(repeater_graph.repeaters["O"]) :
            LET domains == repeater_graph.repeaters["O"][i].domains
            IN  ~(domain = NoDomain \/ domain \in domains \/ "*" \in domains))
        => RepeaterScore(repeater_graph, "O", T, TRUE, domain)
               = RepeaterScore(repeater_graph, "O", T, FALSE, domain)

RECURSIVE Within(_, _, _)
\* The identities that paths of at most hops edges lead to from from_cid.
Within(graph, from_cid, hops) ==
    IF hops = 0 THEN {from_cid}
    ELSE LET near == Within(graph, from_cid, hops - 1)
         IN  near \cup UNION {Keys(graph.edges[id]) : id \in near}

\* C27: where every path from the first identity of the chain to the last
\* has more than 5 edges, the trust of the first in the last is 0.
C27_NothingBeyondFiveEdges ==
    Hop(ChainLength) \notin Within(repeater_graph, Hop(0), 5)
    => \A use_repeaters \in BOOLEAN :
          RepeaterScore(repeater_graph, Hop(0), Hop(ChainLength), use_repeaters, NoDomain) = Zero

\* The thoughts node a holds and would share with node b.
ShareableWith(a, b) ==
    {cid \in Cids(node[a]) : _can_share_with_peer(node[a], ThoughtAt(node[a], cid), node[b].cid)}

\* Two nodes that keep syncing in both directions, as bidirectional_sync of
\* the tests does round after round: every response of /sync that would store
\* something is posted to /receive sooner or later.
\* The revocations node ns has stored of the membership of member_cid in
\* pool_cid: attestations of weight -1.0 on a membership attestation.
Revocations(ns, pool_cid, member_cid) ==
    {r \in Range(ns.thoughts) :
        /\ r.type = "attestation"
        /\ DictGet(r.content, "weight", 0) = -10
        /\ \E m \in MembershipsOf(ns, member_cid) :
              /\ m.content.pool = pool_cid
              /\ DictGet(r.content, "on", <<>>) = m.cid}

\* C18: once the revocation of a device's membership is stored, no thought
\* that the device signs afterwards is accepted into the pool.
C18_RevokedDeviceShutOut ==
    [][\A cid \in Cids(node'[Owner]) \ Cids(node[Owner]) :
          \A pool_cid \in PoolsAt(node[Owner]) :
              LET thought == ThoughtAt(node'[Owner], cid)
              IN  (/\ thought.created_by = CidOf(Device)
                   /\ thought.visibility = PoolVisibility(pool_cid))
                  => \A r \in Revocations(node[Owner], pool_cid, CidOf(Device)) :
                         r.created_at >= thought.created_at]_vars

\* The waterline of a pool as of now: the one its latest pool_config thought
\* sets, or the one of its rules while it has never been updated.
CurrentWaterline(pool_cid) ==
    LET latest == get_latest_config(pool_thoughts, pool_cid)
        stored == CHOOSE i \in 1..Len(pool_thoughts.pool) :
                      pool_thoughts.pool[i].cid = pool_cid
    IN  IF latest # 0
        THEN pool_thoughts.pool_config[latest].waterline
        ELSE pool_thoughts.pool[stored].rules.waterline

\* C28: a thought that was pushed and breaks a rule of the pool (its type is
\* not accepted, a because chain is required and it has none, its content is
\* above max_payload_bytes) is stored, and is tagged with the appetite
\* unauthorized_claim or flagged.
C28_RuleBreakerTagged ==
    \A t \in RemotePoolThoughts :
        (t.cid \in DOMAIN db /\ ~apply_pool_rules(t, WotRules).valid)
        => /\ db[t.cid] = t
           /\ t.cid \in DOMAIN embedding_metadata
           /\ embedding_metadata[t.cid].appetite_status \in {"unauthorized_claim", "flagged"}

C30_WaterlineSurvivesReload ==
    Len(pool_thoughts.pool_config) > 0
    => LET w == pool_thoughts.pool_config[Len(pool_thoughts.pool_config)].waterline
           AtLeast(r) == r >= w
       IN  \A pools \in {_pools, {}} : \A results \in Retrieved :
               filter_by_waterline(pools, pool_thoughts, results, WotPoolCid).results
                   = SelectSeq(results, AtLeast)

\* The senders the expectations of run_simulation are recorded for: Carol,
\* who is neither of Senders.
ExpectedSenders ==
    {s \in Senders : \E t \in ConfigThoughts :
        /\ t.type = "expectation"
        /\ t.content.expecting_name = (IF s = "bob" THEN "Bob" ELSE "Spammer")}

\* C31: a sender whose trust is below 0.8 and for whom no expectation is
\* recorded is held to unknown_rate: an expectation recorded for another
\* sender does not raise its limit.  A sender of trust 0.8 and above is held
\* to trusted_rate.
C31_OthersExpectationNoBoost ==
    \A msg \in IncomingMessages :
        LET trust == DictGet(engine.trust_scores, msg.sender_id, 0)
        IN  /\ trust >= 8 => rate_limit(engine, msg) = get_limits(engine).trusted_rate
            /\ (trust < 8 /\ msg.sender_id \notin ExpectedSenders)
               => rate_limit(engine, msg) = get_limits(engine).unknown_rate

\* C17: no result returned by a query scoped to a pool has a relevance below
\* the waterline the pool has when the query is answered.
C17_NothingBelowWaterline ==
    [][(/\ query_response' # query_response
        /\ query_response'.pool_cid = WotPoolCid
        /\ pool_thoughts.pool # <<>>)
       => \A i \in 1..Len(query_response'.results) :
              query_response'.results[i] >= CurrentWaterline(WotPoolCid)]_vars

\* How many of the first k evaluations allowed a message of sender_id that
\* was stamped after cutoff.
AllowedSince(k, sender_id, cutoff) ==
    Cardinality({i \in 1..k : /\ evaluated'[i].sender_id = sender_id
                              /\ evaluated'[i].result = "allowed"
                              /\ evaluated'[i].timestamp > cutoff})

Incoming(log, now) ==
    Cardinality({i \in 1..Len(log) : log[i].timestamp > now - HourTicks})

\* C20: in the step in which the messages that came in within the hour come
\* to exceed attack_threshold, the engine is given a new appetite aspect with
\* attack_mode set.
C20_AttackModeOnCrossing ==
    [][(/\ ~get_limits(engine).attack_mode
        /\ Incoming(evaluated, datetime_now) <= get_limits(engine).attack_threshold
        /\ Incoming(evaluated', datetime_now') > get_limits(engine).attack_threshold)
       => (/\ engine'.appetite # engine.appetite
           /\ get_limits(engine').attack_mode)]_vars

\* The participants list of a thought.
Participants(thought) == Range(DictGet(thought.content, "participants", <<>>))

\* What a sync response must carry of the participants_only thoughts of the
\* answering node that the asking peer's bloom filter does not hold: those
\* for which Addressed(answering node, thought, asking node) holds, no others.
ParticipantsRule(Addressed(_, _, _)) ==
    (wire' # wire /\ wire'.from # <<>>)
    => LET n == NodeWithCid(wire'.from)
           m == NodeWithCid(wire'.to)
       IN  \A cid \in Cids(node[n]) :
               LET thought == ThoughtAt(node[n], cid)
               IN  (/\ thought.visibility = ParticipantsOnly
                    /\ ~maybe_contains(node[m].bloom, cid))
                   => (thought \in Range(wire'.thoughts) <=> Addressed(n, thought, m))

\* The identity CID or the display name of m is in the list.
AddressedTo(n, thought, m) ==
    CidOf(m) \in Participants(thought) \/ <<m>> \in Participants(thought)

\* The identity CID of m is in the list, or m has registered with n and the
\* name it registered is in the list.
AddressedToRegistered(n, thought, m) ==
    \/ CidOf(m) \in Participants(thought)
    \/ /\ CidOf(m) \in DOMAIN node[n].known_peers
       /\ node[n].known_peers[CidOf(m)].content.name \in Participants(thought)

KnownVisibility(visibility) ==
    \/ visibility \in {<<>>, Public, LocalForever, ParticipantsOnly}
    \/ IsPoolVisibility(visibility)

\* C23: a thought whose visibility is none of absent, public, local_forever,
\* pool:<cid> and participants_only is in no sync response of a node, and the
\* relay lets no viewer see it.
C23_OddVisibilityWithheld ==
    /\ \A i \in 1..Len(wire.thoughts) : KnownVisibility(wire.thoughts[i].visibility)
    /\ \A members \in RelayMembers, thought \in RelayThoughts, viewer \in RelayIdentities :
          ~KnownVisibility(thought.visibility) => ~_can_see(members, thought, viewer)

\* A node that holds a note of odd visibility has answered a sync with a
\* thought it made later than that note.
C23_OddVisibilityHeldBack ==
    \E n \in Nodes : \E cid \in Cids(node[n]) : \E i \in 1..Len(wire.thoughts) :
        LET thought == ThoughtAt(node[n], cid)
        IN  /\ ~KnownVisibility(thought.visibility)
            /\ thought.created_by = node[n].cid
            /\ wire.from = node[n].cid
            /\ wire.thoughts[i].created_by = node[n].cid
            /\ wire.thoughts[i].created_at > thought.created_at

\* Attack mode as evaluate works it out for a message arriving at clock
\* value now: set in the limits, or the logged total above the threshold.
AttackActive(e, now) ==
    \/ get_limits(e).attack_mode
    \/ count_total_recent(e.message_log, now) > get_limits(e).attack_threshold

\* C21: attack mode, once active, ends only in a step that adds an appetite
\* aspect clearing attack_mode, never by time passing or traffic dropping.
C21_AttackModeEndsExplicitly ==
    [][(AttackActive(engine, datetime_now) /\ ~AttackActive(engine', datetime_now'))
       => (/\ engine'.appetite # engine.appetite
           /\ ~get_limits(engine').attack_mode)]_vars

\* C32: while attack mode is active, a message of a sender in the unknown
\* category (trust below 0.8, no expectation for its channel) is rejected,
\* and a message of a trusted sender that is under trusted_rate is allowed.
C32_AttackModeRejectsUnknown ==
    [][(Len(evaluated') = Len(evaluated) + 1 /\ AttackActive(engine, datetime_now))
       => LET judged == evaluated'[Len(evaluated')]
              trust == DictGet(engine.trust_scores, judged.sender_id, 0)
          IN  /\ (trust < 8 /\ judged.channel \notin engine.expectations)
                 => judged.result = "rejected"
              /\ (/\ trust >= 8
                  /\ count_recent(engine.message_log, judged.sender_id, datetime_now)
                         < get_limits(engine).trusted_rate)
                 => judged.result = "allowed"]_vars

\* A payload fails verification: its CID is not the hash of its canonical
\* bytes, or its signature is not one of the key of its creator.
FailsVerification(payload) ==
    \/ blake3(payload.thought_cbor) # Tail(payload.cid)
    \/ ~verify_signature(payload.thought_proto, PeerPubkey(payload.thought_proto.created_by))

\* C33: a rejected thought never aborts a Push: every payload of the stream
\* is answered with exactly one Ack, in order; the Ack is Rejected for a
\* payload that fails verification (CID mismatch or bad signature), and every
\* other payload is accepted and stored.
C33_RejectionNeverAbortsIngest ==
    \A payloads \in PushStreams :
        LET st == PushLoop([db |-> db, jsonl |-> jsonl, acks |-> <<>>], payloads)
        IN  /\ Len(st.acks) = Len(payloads)
            /\ \A i \in 1..Len(payloads) :
                  /\ st.acks[i].cid = payloads[i].cid
                  /\ FailsVerification(payloads[i]) => st.acks[i].status = ACK_REJECTED
                  /\ ~FailsVerification(payloads[i])
                     => /\ st.acks[i].status = ACK_ACCEPTED
                        /\ payloads[i].thought_proto.cid \in DOMAIN st.db

\* Similarities of a row to a query, in tenths.
Similarities == {0, 5, 10}

\* Clock values of a query, on whole hours.
QueryTimes == {0, MsPerHour}

\* C34: with trust weighting enabled the relevance of every row the query
\* scores is similarity x trust_weight x chain_boost x recency, so a row
\* with trust_weight 0 has relevance 0.
C34_RelevanceIsTheProduct ==
    \A exclude_pending \in BOOLEAN :
    \A cid \in query_rows(embedding_metadata, exclude_pending) :
    \A similarity \in Similarities, now_ms \in QueryTimes :
        LET row == embedding_metadata[cid]
            scored == relevance(row, similarity, TRUE, now_ms)
            product == <<similarity * row.trust_weight * Recency(row, now_ms),
                         10 + row.chain_depth>>
        IN  /\ scored[1] * product[2] = product[1] * scored[2]
            /\ row.trust_weight = 0 => scored[1] = 0

\* round(a, 2) in hundredths, halves rounded up
Hundredths(a) ==
    IF a[2] <= 2 THEN a[1] * Pow10(2 - a[2])
    ELSE (a[1] + 5 * Pow10(a[2] - 3)) \div Pow10(a[2] - 2)

\* C35: on the scenario graph, with Prof as Dave's repeater for climate, the
\* trust computed from Dave to Dr. Chen for a climate query is 0.24 to two
\* decimal places.
C35_DaveTrustsChenAtAboutAQuarter ==
    (/\ \A e \in ScenarioEdges : e[2] \in Keys(repeater_graph.edges[e[1]])
     /\ Len(repeater_graph.repeaters[dave]) > 0)
    => LET trust == Repeaters_compute_trust(repeater_graph, dave, dr_chen, TRUE,
                                            "climate", {}, 0).score
       IN  Hundredths(trust) = 24

\* C36: whenever no put is in progress, also after a crash during a put, the
\* CIDs of the thought table are the CIDs that have a line in the log.
C36_TableMirrorsLog ==
    DOMAIN db = {jsonl[i].cid : i \in 1..Len(jsonl)}

C38_BloomHoldsEveryStoredCid ==
    /\ [](\A n \in Nodes : \A cid \in Cids(node[n]) : maybe_contains(node[n].bloom, cid))
    /\ [][(wire' # wire /\ wire'.from # <<>>)
          => \A i \in 1..Len(wire'.thoughts) :
                wire'.thoughts[i].cid \notin Cids(node[NodeWithCid(wire'.to)])]_vars

\* A sync response is on its way to a node that holds a provenance thought
\* and a thought of the answering node, which the response leaves out.
C38_HeldThoughtLeftOut ==
    /\ Len(wire.thoughts) > 0
    /\ LET n == NodeWithCid(wire.from)
           m == NodeWithCid(wire.to)
       IN  /\ \E cid \in Cids(node[m]) : ThoughtAt(node[m], cid).type = "connection"
           /\ \E cid \in Cids(node[n]) \cap Cids(node[m]) :
                 \A i \in 1..Len(wire.thoughts) : wire.thoughts[i].cid # cid

\* C39: the Hello calls that have returned were given pairwise distinct
\* session ids, and the registry holds the peer record of each of them.
C39_SessionIdsDistinct ==
    LET returned == {w \in Workers : workers[w].pc = "returned"}
    IN  /\ \A w1, w2 \in returned : w1 # w2 => workers[w1].session_id # workers[w2].session_id
        /\ \A w \in returned :
              /\ workers[w].session_id \in DOMAIN peers
              /\ peers[workers[w].session_id].identity_cid = HelloIdentity(w)

\* C40: the key ExchangeBloom and the client's sync add to the bloom filter
\* for a stored thought is the CID bytes thought_to_payload puts on the wire
\* for it, also when the thought has visibility or source.
C40_BloomKeyIsWireCid ==
    [][(stream' # stream /\ stream'.rpc \in {"ExchangeBloom", "sync"})
       => \A i \in 1..Len(stream'.payloads) :
             stream'.payloads[i].cid_bytes
                 = thought_to_payload(get_thought(db, stream'.payloads[i].thought)).cid]_vars

NextSync ==
    \/ \E n \in Nodes : CreateThought(n)
    \/ \E n \in Nodes : Peering(n, DriverIdentities(n))
    \/ \E n \in Nodes : Sync(n)
    \/ \E n \in Nodes : Receive(n)

KeepSyncing == \A n \in Nodes : SF_vars(Sync(n)) /\ WF_vars(Receive(n))

SpecSync == Init /\ [][NextSync]_vars /\ KeepSyncing

\* C8: two nodes that keep syncing with each other come, after finitely many
\* rounds, to hold the same shareable thoughts for good: from some round on,
\* each holds every thought the other holds and would share with it.
C8_SyncConverges ==
    <>[](\A a, b \in Nodes : a # b => ShareableWith(a, b) \subseteq Cids(node[b]))

====
